---- MODULE Spec2Model ----
(***************************************************************************)
(* State-machine model of the OWASP Top Ten card game engine               *)
(* (src/src/hooks/useGameState.ts, src/src/utils/ai.ts,                     *)
(* src/src/utils/helpers.ts, the card data module src/unnamed/part_002 and  *)
(* the App component src/unnamed/part_000).                                 *)
(*                                                                         *)
(* React state is modelled as it is held by the hook: the committed        *)
(* GameState `gs` (its top-level fields), the nested PlayerState objects   *)
(* `heap[g].player` / `heap[g].ai`, which every `{...gameState}` copy       *)
(* shares by reference, the `isProcessing` state, the `skipAIRef` ref and  *)
(* the asynchronous procedures in flight, one step per segment of code     *)
(* between two awaits.                                                      *)
(***************************************************************************)
EXTENDS Integers, Sequences, FiniteSets, TLC

VARIABLES
    gs,            \* the committed GameState (useState), top-level fields
    heap,          \* the PlayerState objects of each dealt game, by game slot
    isProcessing,  \* useState(false)
    skipAI,        \* skipAIRef.current
    procs,         \* the async procedures in flight, by slot
    probe          \* inputs and results of the pure functions under test

vars == <<gs, heap, isProcessing, skipAI, procs, probe>>

(***************************************************************************)
(* Program constants                                                       *)
(***************************************************************************)
HAND_SIZE == 5
ASSETS_PER_PLAYER == 3
ASSETS_TO_WIN == 2
DEFENSES_TO_WIN == 6
NumValues == 10
NumFaces == 3
LogCap == 200
RandDen == 100

(***************************************************************************)
(* Bounds of the model                                                     *)
(***************************************************************************)
MaxPick == 1        \* select-card offers the first MaxPick cards of the hand
MaxTargetPick == 1  \* select-asset offers the first MaxTargetPick clickable AI assets
MaxStale == 1       \* uses of a handle of a played card or of a destroyed asset
MaxTurn == 3        \* the player acts while turnNumber <= MaxTurn, ends turns below it
MaxProcs == 2       \* slots for procedures in flight
MaxGames == 2       \* slots for the PlayerState objects of dealt games
MaxProbeDefenses == 7  \* successful-defense counters tried by the win probe
MaxFairTurn == 1    \* SpecFair, SpecTurns: the player attacks while turnNumber <= MaxFairTurn
MaxLongTurn == 8    \* SpecTurns: the player ends turns while turnNumber < MaxLongTurn
MaxSessionGames == 3 \* SpecIds: games dealt in one session of the page
MaxClock == 2       \* SpecIds: Date.now() runs from 0 to MaxClock
MaxLogOverflow == 3
MaxLogChoice == 2
MaxOverlapHand == 1 \* SpecRace: attack() is called twice while the hand holds <= MaxOverlapHand cards
MaxWholeTurn == 12  \* SpecWholeGame: the player ends turns while turnNumber < MaxWholeTurn

Procs == 1..MaxProcs
Gens == 1..MaxGames

\* Math.random() values, in hundredths: for every threshold the code compares
\* against (0.15, 0.3, 0.5, 0.7, 0.95) one value below it and one not below.
RandVals == {10, 97}
\* The random streams fed to the shuffles of a deal (see RandomAt): one for
\* the attack cards and attack-side assets, one for the defense side.
\* The first deal puts the attack Joker into the player's hand and lets either
\* side win within MaxTurn; the second puts the defense Joker into the
\* player's hand and the attack Joker into the AI's.
Deals == {<< <<0, 75>>, <<50, 99>> >>, << <<20, 50>>, <<13, 50>> >>}
Difficulties == {"easy", "hard", "brutal"}

(***************************************************************************)
(* Cards.  generateCardId numbers the cards in creation order: for each    *)
(* suit the ten values and then the three faces, and the two jokers last.  *)
(***************************************************************************)
SuitSpan == NumValues + NumFaces
NumSuits == 4
BlackJoker == NumSuits * SuitSpan + 1
RedJoker == NumSuits * SuitSpan + 2
CardIds == 1..RedJoker

SuitIndex(id) == (id - 1) \div SuitSpan
Rank(id) == ((id - 1) % SuitSpan) + 1

createTACard(suit, value) ==
    [id |-> suit * SuitSpan + value, category |-> "threat_agent", value |-> value]

createDCCard(suit, value) ==
    [id |-> suit * SuitSpan + value, category |-> "defense_control", value |-> value]

createAssetCard(suit, face) ==
    [id |-> suit * SuitSpan + NumValues + face, category |-> "asset", value |-> 0]

createJokerCard(id) ==
    [id |-> id, category |-> "joker", value |-> 0]

\* The card object behind an id of the generated deck.
CardOf ==
    [id \in CardIds |->
        IF id >= BlackJoker THEN createJokerCard(id)
        ELSE IF Rank(id) > NumValues
             THEN createAssetCard(SuitIndex(id), Rank(id) - NumValues)
        ELSE IF SuitIndex(id) < 2
             THEN createTACard(SuitIndex(id), Rank(id))
        ELSE createDCCard(SuitIndex(id), Rank(id))]

Category(id) == CardOf[id].category
Value(id) == CardOf[id].value

generateFullDeck ==
    [taCards  |-> [k \in 1..(2 * NumValues) |->
                     ((k - 1) \div NumValues) * SuitSpan + ((k - 1) % NumValues) + 1],
     dcCards  |-> [k \in 1..(2 * NumValues) |->
                     (2 + (k - 1) \div NumValues) * SuitSpan + ((k - 1) % NumValues) + 1],
     taAssets |-> [k \in 1..(2 * NumFaces) |->
                     ((k - 1) \div NumFaces) * SuitSpan + NumValues + ((k - 1) % NumFaces) + 1],
     dcAssets |-> [k \in 1..(2 * NumFaces) |->
                     (2 + (k - 1) \div NumFaces) * SuitSpan + NumValues + ((k - 1) % NumFaces) + 1],
     jokers   |-> <<BlackJoker, RedJoker>>]

(***************************************************************************)
(* Fisher-Yates, as both shuffle() and createShuffledDeck() run it: for i  *)
(* from the last index down to 1, swap with index floor(random * (i + 1)). *)
(* Positions are 1-based here: p = i + 1, q = j + 1.  A random stream      *)
(* <<first, rest>> makes Math.random() return first/100 on the first call  *)
(* of the shuffle and rest/100 on every later call.                        *)
(***************************************************************************)
Swap(arr, p, q) == [arr EXCEPT ![p] = arr[q], ![q] = arr[p]]

RandomAt(stream, call) == IF call = 1 THEN stream[1] ELSE stream[2]

RECURSIVE SwapLoop(_, _, _)
SwapLoop(arr, p, stream) ==
    IF p < 2 THEN arr
    ELSE LET random == RandomAt(stream, Len(arr) - p + 1)
             q == ((random * p) \div RandDen) + 1
         IN  SwapLoop(Swap(arr, p, q), p - 1, stream)

shuffle(array, stream) == SwapLoop(array, Len(array), stream)

createShuffledDeck(cards, stream) == SwapLoop(cards, Len(cards), stream)

(***************************************************************************)
(* Match rule                                                              *)
(***************************************************************************)
\* canDefend without its rule for a Joker attack
canDefendValueOnly(attackCard, defenseCard) ==
    IF defenseCard.category = "joker" THEN TRUE
    ELSE IF defenseCard.category # "defense_control" THEN FALSE
    ELSE IF attackCard.category # "threat_agent" THEN FALSE
    ELSE defenseCard.value = attackCard.value

canDefend(attackCard, defenseCard) ==
    IF defenseCard.category = "joker" THEN TRUE
    ELSE IF attackCard.category = "joker" THEN TRUE
    ELSE IF defenseCard.category # "defense_control" THEN FALSE
    ELSE IF attackCard.category # "threat_agent" THEN FALSE
    ELSE defenseCard.value = attackCard.value

(***************************************************************************)
(* Sequence helpers                                                        *)
(***************************************************************************)
Min(a, b) == IF a < b THEN a ELSE b

Range(seq) == {seq[i] : i \in 1..Len(seq)}

\* array.slice(from, to) with 0-based from/to, to exclusive
Slice(seq, from, to) == SubSeq(seq, from + 1, Min(to, Len(seq)))

\* array.slice(from)
SliceFrom(seq, from) == SubSeq(seq, from + 1, Len(seq))

\* hand.filter(c => c.instanceId !== card.instanceId); the instance id of a
\* hand card is modelled by the id of the card it wraps
RemoveCard(hand, card) == SelectSeq(hand, LAMBDA c : c # card)

\* number of positions of seq holding x
Count(seq, x) == Cardinality({i \in 1..Len(seq) : seq[i] = x})

(***************************************************************************)
(* Null values (uniformly typed stand-ins for null)                        *)
(***************************************************************************)
NoCard == 0
NoAsset == [instanceId |-> 0, state |-> "none", damageCount |-> 0]
NoAttackState ==
    [targetAsset |-> NoAsset, attackCard |-> NoCard, stage |-> "none",
     attacksThisRound |-> 0]
NoEntry == [actor |-> "none", action |-> "none"]
NoDifficulty == "none"
NoResult == "none"

(***************************************************************************)
(* helpers.ts                                                              *)
(***************************************************************************)
createCyberAsset(card) ==
    [instanceId |-> card, state |-> "facedown", damageCount |-> 0]

\* array[Math.floor(Math.random() * array.length)]
getRandomElement(array, random) == array[((random * Len(array)) \div RandDen) + 1]

(***************************************************************************)
(* useGameState.ts: module-level functions                                 *)
(***************************************************************************)
\* initializeGame dealing the AI's hands from the front of the piles too
initializeGameAIFromFront(g, streamTA, streamDC) ==
    LET deck == generateFullDeck
        shuffledTA == createShuffledDeck(Append(deck.taCards, deck.jokers[1]), streamTA)
        shuffledDC == createShuffledDeck(Append(deck.dcCards, deck.jokers[2]), streamDC)
        shuffledTAAssets == shuffle(deck.taAssets, streamTA)
        shuffledDCAssets == shuffle(deck.dcAssets, streamDC)
        playerAssets == Slice(shuffledDCAssets, 0, ASSETS_PER_PLAYER)
        aiAssets == Slice(shuffledTAAssets, 0, ASSETS_PER_PLAYER)
    IN  [top |->
            [gen |-> g,
             phase |-> "difficulty_select",
             currentAttacker |-> "player",
             difficulty |-> NoDifficulty,
             taDeck |-> SliceFrom(shuffledTA, HAND_SIZE * 2),
             dcDeck |-> SliceFrom(shuffledDC, HAND_SIZE * 2),
             attackState |-> NoAttackState,
             turnNumber |-> 1,
             lastAction |-> NoEntry,
             actionLog |-> << >>,
             selectedCard |-> NoCard,
             selectedAsset |-> NoAsset,
             coinFlipResult |-> NoResult],
         player |->
            [assets |-> [i \in 1..Len(playerAssets) |-> createCyberAsset(playerAssets[i])],
             taHand |-> Slice(shuffledTA, 0, HAND_SIZE),
             dcHand |-> Slice(shuffledDC, 0, HAND_SIZE),
             taDiscard |-> << >>,
             dcDiscard |-> << >>,
             successfulDefenses |-> 0],
         ai |->
            [assets |-> [i \in 1..Len(aiAssets) |-> createCyberAsset(aiAssets[i])],
             taHand |-> Slice(shuffledTA, 0, HAND_SIZE),
             dcHand |-> Slice(shuffledDC, 0, HAND_SIZE),
             taDiscard |-> << >>,
             dcDiscard |-> << >>,
             successfulDefenses |-> 0]]

\* The GameState built by initializeGame for game slot g: `top` holds its
\* top-level fields, `player` and `ai` the two PlayerState objects.
initializeGame(g, streamTA, streamDC) ==
    LET deck == generateFullDeck
        shuffledTA == createShuffledDeck(Append(deck.taCards, deck.jokers[1]), streamTA)
        shuffledDC == createShuffledDeck(Append(deck.dcCards, deck.jokers[2]), streamDC)
        shuffledTAAssets == shuffle(deck.taAssets, streamTA)
        shuffledDCAssets == shuffle(deck.dcAssets, streamDC)
        playerAssets == Slice(shuffledDCAssets, 0, ASSETS_PER_PLAYER)
        aiAssets == Slice(shuffledTAAssets, 0, ASSETS_PER_PLAYER)
    IN  [top |->
            [gen |-> g,
             phase |-> "difficulty_select",
             currentAttacker |-> "player",
             difficulty |-> NoDifficulty,
             taDeck |-> SliceFrom(shuffledTA, HAND_SIZE * 2),
             dcDeck |-> SliceFrom(shuffledDC, HAND_SIZE * 2),
             attackState |-> NoAttackState,
             turnNumber |-> 1,
             lastAction |-> NoEntry,
             actionLog |-> << >>,
             selectedCard |-> NoCard,
             selectedAsset |-> NoAsset,
             coinFlipResult |-> NoResult],
         player |->
            [assets |-> [i \in 1..Len(playerAssets) |-> createCyberAsset(playerAssets[i])],
             taHand |-> Slice(shuffledTA, 0, HAND_SIZE),
             dcHand |-> Slice(shuffledDC, 0, HAND_SIZE),
             taDiscard |-> << >>,
             dcDiscard |-> << >>,
             successfulDefenses |-> 0],
         ai |->
            [assets |-> [i \in 1..Len(aiAssets) |-> createCyberAsset(aiAssets[i])],
             taHand |-> Slice(shuffledTA, HAND_SIZE, HAND_SIZE * 2),
             dcHand |-> Slice(shuffledDC, HAND_SIZE, HAND_SIZE * 2),
             taDiscard |-> << >>,
             dcDiscard |-> << >>,
             successfulDefenses |-> 0]]

getNextAssetState(current) ==
    CASE current = "facedown" -> "revealed"
      [] current = "revealed" -> "rotated"
      [] current = "rotated"  -> "destroyed"
      [] OTHER                -> current

\* the position of a state in the order getNextAssetState steps through
LifecycleIndex(assetState) ==
    CASE assetState = "facedown" -> 0
      [] assetState = "revealed" -> 1
      [] assetState = "rotated"  -> 2
      [] OTHER                   -> 3

DestroyedCount(assets) ==
    Cardinality({i \in 1..Len(assets) : assets[i].state = "destroyed"})

\* state is a GameState: [top, player, ai]
\* checkWinCondition testing the defense counters before the assets
checkWinConditionDefensesFirst(state) ==
    IF state.player.successfulDefenses >= DEFENSES_TO_WIN THEN "player_won"
    ELSE IF state.ai.successfulDefenses >= DEFENSES_TO_WIN THEN "ai_won"
    ELSE IF DestroyedCount(state.player.assets) >= ASSETS_TO_WIN THEN "ai_won"
    ELSE IF DestroyedCount(state.ai.assets) >= ASSETS_TO_WIN THEN "player_won"
    ELSE state.top.phase

checkWinCondition(state) ==
    LET playerDestroyedAssets == DestroyedCount(state.player.assets)
        aiDestroyedAssets == DestroyedCount(state.ai.assets)
    IN  IF playerDestroyedAssets >= ASSETS_TO_WIN THEN "ai_won"
        ELSE IF aiDestroyedAssets >= ASSETS_TO_WIN THEN "player_won"
        ELSE IF state.player.successfulDefenses >= DEFENSES_TO_WIN THEN "player_won"
        ELSE IF state.ai.successfulDefenses >= DEFENSES_TO_WIN THEN "ai_won"
        ELSE state.top.phase

\* the phase of the win getWinReason reports, "none" for null
getWinReason(state) ==
    LET playerDestroyedAssets == DestroyedCount(state.player.assets)
        aiDestroyedAssets == DestroyedCount(state.ai.assets)
    IN  IF playerDestroyedAssets >= ASSETS_TO_WIN THEN "ai_won"
        ELSE IF aiDestroyedAssets >= ASSETS_TO_WIN THEN "player_won"
        ELSE IF state.player.successfulDefenses >= DEFENSES_TO_WIN THEN "player_won"
        ELSE IF state.ai.successfulDefenses >= DEFENSES_TO_WIN THEN "ai_won"
        ELSE "none"

RECURSIVE drawToHandSize(_, _, _)
drawToHandSize(hand, deck, targetSize) ==
    IF Len(hand) < targetSize /\ Len(deck) > 0
    THEN drawToHandSize(Append(hand, Head(deck)), Tail(deck), targetSize)
    ELSE [newHand |-> hand, newDeck |-> deck]

\* addLogToState as it would be if the cap kept the oldest entries
addLogToStateKeepsOldest(top, entry) ==
    LET appended == Append(top.actionLog, entry)
        nextLog == IF Len(appended) > LogCap
                   THEN SubSeq(appended, 1, LogCap)
                   ELSE appended
    IN  [top EXCEPT !.lastAction = entry, !.actionLog = nextLog]

\* [...log, entry].slice(-200), on the top-level fields
addLogToState(top, entry) ==
    LET appended == Append(top.actionLog, entry)
        nextLog == IF Len(appended) > LogCap
                   THEN SubSeq(appended, Len(appended) - LogCap + 1, Len(appended))
                   ELSE appended
    IN  [top EXCEPT !.lastAction = entry, !.actionLog = nextLog]

Stage(assetState) ==
    IF assetState = "facedown" THEN "observation"
    ELSE IF assetState = "revealed" THEN "assessment"
    ELSE "pwn"

\* state.difficulty || 'hard'
DifficultyOr(difficulty) == IF difficulty = NoDifficulty THEN "hard" ELSE difficulty

(***************************************************************************)
(* ai.ts                                                                   *)
(***************************************************************************)
AttackValue(card) == IF Category(card) = "threat_agent" THEN Value(card) ELSE 0

\* [...xs].sort((a, b) => bv - av)[0]: the sort is stable, so the result is
\* the first element, in array order, whose attack value is maximal
FirstMax(xs) ==
    LET i == CHOOSE i \in 1..Len(xs) :
                 /\ \A j \in 1..Len(xs) : AttackValue(xs[j]) <= AttackValue(xs[i])
                 /\ \A j \in 1..(i - 1) : AttackValue(xs[j]) < AttackValue(xs[i])
    IN  xs[i]

\* aiChooseAttackCard as it would be if a Joker in hand were played first
aiChooseAttackCardJokerFirst(taHand, defenderDcHand, difficulty, random) ==
    IF Len(taHand) = 0 THEN NoCard
    ELSE
    LET taCards == SelectSeq(taHand, LAMBDA c : Category(c) = "threat_agent")
        jokerCards == SelectSeq(taHand, LAMBDA c : Category(c) = "joker")
        usableAttackCards == IF Len(jokerCards) > 0 THEN jokerCards ELSE taCards
    IN  IF difficulty = "easy" THEN getRandomElement(usableAttackCards, random)
        ELSE FirstMax(usableAttackCards)

\* the card chosen, NoCard when the decision carries no card
aiChooseAttackCard(taHand, defenderDcHand, difficulty, random) ==
    IF Len(taHand) = 0 THEN NoCard
    ELSE
    LET taCards == SelectSeq(taHand, LAMBDA c : Category(c) = "threat_agent")
        jokerCards == SelectSeq(taHand, LAMBDA c : Category(c) = "joker")
        usableAttackCards == IF Len(taCards) > 0 THEN taCards ELSE jokerCards
        notDefendable ==
            SelectSeq(usableAttackCards, LAMBDA att :
                ~ \E i \in 1..Len(defenderDcHand) :
                      canDefend(CardOf[att], CardOf[defenderDcHand[i]]))
        matchingDcValues ==
            {Value(defenderDcHand[i]) : i \in {k \in 1..Len(defenderDcHand) :
                                         Category(defenderDcHand[k]) = "defense_control"}}
        forcesJoker ==
            SelectSeq(usableAttackCards, LAMBDA att :
                Category(att) = "threat_agent" /\ Value(att) \notin matchingDcValues)
    IN  IF difficulty = "easy" THEN getRandomElement(usableAttackCards, random)
        ELSE IF Len(notDefendable) > 0 THEN FirstMax(notDefendable)
        ELSE IF Len(forcesJoker) > 0 THEN FirstMax(forcesJoker)
        ELSE FirstMax(usableAttackCards)

StateRank(assetState) ==
    CASE assetState = "facedown" -> 1
      [] assetState = "revealed" -> 2
      [] assetState = "rotated"  -> 3
      [] OTHER                   -> 0

\* the asset chosen, NoAsset for null
aiChooseTarget(assets) ==
    LET validTargets == SelectSeq(assets, LAMBDA a : a.state # "destroyed")
        Before(a, b) ==   \* the comparator puts a strictly before b
            \/ StateRank(a.state) > StateRank(b.state)
            \/ StateRank(a.state) = StateRank(b.state) /\ a.damageCount > b.damageCount
    IN  IF Len(validTargets) = 0 THEN NoAsset
        ELSE LET i == CHOOSE i \in 1..Len(validTargets) :
                          /\ \A j \in 1..Len(validTargets) :
                                 ~ Before(validTargets[j], validTargets[i])
                          /\ \A j \in 1..(i - 1) :
                                 Before(validTargets[i], validTargets[j])
             IN  validTargets[i]

DefendChance(difficulty) ==
    IF difficulty = "easy" THEN 15 ELSE IF difficulty = "hard" THEN 50 ELSE 95

\* aiChooseDefense as it would be if it played a Joker before any other card
aiChooseDefenseJokerFirst(dcHand, attackCard, difficulty, random) ==
    IF Len(dcHand) = 0 THEN NoCard
    ELSE
    LET validDefenses == SelectSeq(dcHand, LAMBDA c : canDefend(CardOf[attackCard], CardOf[c]))
        shouldDefend == random < DefendChance(difficulty)
        nonJokerDefenses == SelectSeq(validDefenses, LAMBDA c : Category(c) # "joker")
        jokerDefenses == SelectSeq(validDefenses, LAMBDA c : Category(c) = "joker")
    IN  IF Len(validDefenses) = 0 THEN NoCard
        ELSE IF ~ shouldDefend THEN NoCard
        ELSE IF Len(jokerDefenses) > 0 THEN jokerDefenses[1]
        ELSE IF Len(nonJokerDefenses) > 0 THEN nonJokerDefenses[1]
        ELSE NoCard

\* the card chosen, NoCard when the decision carries no card
aiChooseDefense(dcHand, attackCard, difficulty, random) ==
    IF Len(dcHand) = 0 THEN NoCard
    ELSE
    LET validDefenses == SelectSeq(dcHand, LAMBDA c : canDefend(CardOf[attackCard], CardOf[c]))
        shouldDefend == random < DefendChance(difficulty)
        nonJokerDefenses == SelectSeq(validDefenses, LAMBDA c : Category(c) # "joker")
        jokerDefenses == SelectSeq(validDefenses, LAMBDA c : Category(c) = "joker")
    IN  IF Len(validDefenses) = 0 THEN NoCard
        ELSE IF ~ shouldDefend THEN NoCard
        ELSE IF Len(nonJokerDefenses) > 0 THEN nonJokerDefenses[1]
        ELSE IF Len(jokerDefenses) > 0 THEN jokerDefenses[1]
        ELSE NoCard

ContinueChance(difficulty) ==
    IF difficulty = "easy" THEN 30 ELSE IF difficulty = "hard" THEN 70 ELSE 95

\* aiDecideContinueOrEnd as it would be without the rule for rotated targets
aiDecideContinueOrEndNoFinish(taHand, targetAssets, difficulty, random) ==
    LET validTargets == SelectSeq(targetAssets, LAMBDA a : a.state # "destroyed")
    IN  IF Len(validTargets) = 0 THEN "draw_end"
        ELSE IF Len(taHand) = 0 THEN "draw_end"
        ELSE IF Len(taHand) < 3 THEN "draw_end"
        ELSE IF random < ContinueChance(difficulty) THEN "attack"
        ELSE "draw_end"

\* the action of the decision: "attack" or "draw_end"
aiDecideContinueOrEnd(taHand, targetAssets, difficulty, random) ==
    LET validTargets == SelectSeq(targetAssets, LAMBDA a : a.state # "destroyed")
        rotatedTargets == SelectSeq(validTargets, LAMBDA a : a.state = "rotated")
    IN  IF Len(validTargets) = 0 THEN "draw_end"
        ELSE IF Len(taHand) = 0 THEN "draw_end"
        ELSE IF Len(rotatedTargets) > 0 /\ Len(taHand) >= 1 THEN "attack"
        ELSE IF Len(taHand) < 3 THEN "draw_end"
        ELSE IF random < ContinueChance(difficulty) THEN "attack"
        ELSE "draw_end"


(***************************************************************************)
(* State of the hook                                                       *)
(***************************************************************************)
NoTop ==
    [gen |-> 0, phase |-> "none", currentAttacker |-> "none",
     difficulty |-> NoDifficulty, taDeck |-> << >>, dcDeck |-> << >>,
     attackState |-> NoAttackState, turnNumber |-> 0, lastAction |-> NoEntry,
     actionLog |-> << >>, selectedCard |-> NoCard, selectedAsset |-> NoAsset,
     coinFlipResult |-> NoResult]

NoPlayerState ==
    [assets |-> << >>, taHand |-> << >>, dcHand |-> << >>, taDiscard |-> << >>,
     dcDiscard |-> << >>, successfulDefenses |-> 0]

NoObjects == [player |-> NoPlayerState, ai |-> NoPlayerState]

\* A procedure slot: pc is the await the procedure is suspended at; ns is its
\* local newState (performCoinFlip: the gameState its closure captured);
\* the other fields are its local variables.
IdleProc ==
    [pc |-> "idle", ns |-> NoTop, attackCard |-> NoCard, target |-> NoAsset,
     continueAttacking |-> FALSE, difficulty |-> NoDifficulty, result |-> NoResult]

\* the call under examination in the specifications of the pure functions
NoProbe ==
    [fn |-> "none", done |-> FALSE,
     attackCard |-> NoCard, defenseCard |-> NoCard, defends |-> FALSE,
     playerDestroyed |-> 0, aiDestroyed |-> 0,
     playerDefenses |-> 0, aiDefenses |-> 0, phase |-> "none",
     checked |-> "none", reason |-> "none"]

InFlight(ps, p) == ps[p].pc # "idle"
Quiet == \A p \in Procs : ~ InFlight(procs, p)

\* the slot a newly called procedure runs in
FreeSlot == CHOOSE p \in Procs : ~ InFlight(procs, p) /\ \A q \in 1..(p - 1) : InFlight(procs, q)
HasFreeSlot == \E p \in Procs : ~ InFlight(procs, p)

\* the game slots some procedure in flight still holds a reference to
HeldGens(ps) == {ps[p].ns.gen : p \in {q \in Procs : InFlight(ps, q)}}

\* The GameState object top-level fields `top` belong to: the nested
\* PlayerState objects are shared by every copy of the same game.
World(top) == [top |-> top, player |-> heap[top.gen].player, ai |-> heap[top.gen].ai]

\* the heap after the in-place mutations of `state`, keeping only the objects
\* still referenced by the committed state or by a procedure in flight
StoreAndCollect(state, committed, ps) ==
    LET stored == [heap EXCEPT ![state.top.gen] = [player |-> state.player, ai |-> state.ai]]
    IN  [g \in Gens |-> IF g = committed.gen \/ g \in HeldGens(ps) THEN stored[g] ELSE NoObjects]

Terminal(phase) == phase \in {"player_won", "ai_won"}

(***************************************************************************)
(* Inputs that are plain state setters                                     *)
(***************************************************************************)
\* selectCard as it would be if choosing a card also dropped the chosen asset
selectCardClearsAsset(card) ==
    /\ gs' = [gs EXCEPT !.selectedCard = card, !.selectedAsset = NoAsset]
    /\ UNCHANGED <<heap, isProcessing, skipAI, procs, probe>>

selectCard(card) ==
    /\ gs' = [gs EXCEPT !.selectedCard = card]
    /\ UNCHANGED <<heap, isProcessing, skipAI, procs, probe>>

selectAsset(asset) ==
    /\ gs' = [gs EXCEPT !.selectedAsset = asset]
    /\ UNCHANGED <<heap, isProcessing, skipAI, procs, probe>>

setDifficulty(difficulty) ==
    /\ gs' = [gs EXCEPT !.difficulty = difficulty, !.phase = "coin_flip"]
    /\ UNCHANGED <<heap, isProcessing, skipAI, procs, probe>>

requestSkipAI ==
    /\ skipAI' = TRUE
    /\ UNCHANGED <<gs, heap, isProcessing, procs, probe>>

\* initializeGame() for every game slot and every deal of the random source
DealtGames ==
    [g \in Gens |-> [deal \in Deals |-> initializeGame(g, deal[1], deal[2])]]

resetGame(deal) ==
    /\ \E g \in Gens : g \notin HeldGens(procs)
    /\ LET g == CHOOSE g \in Gens : g \notin HeldGens(procs)
                   /\ \A h \in 1..(g - 1) : h \in HeldGens(procs)
           fresh == DealtGames[g][deal]
           stored == [heap EXCEPT ![g] = [player |-> fresh.player, ai |-> fresh.ai]]
       IN  /\ gs' = fresh.top
           /\ heap' = [h \in Gens |-> IF h = g \/ h \in HeldGens(procs)
                                      THEN stored[h] ELSE NoObjects]
    /\ isProcessing' = FALSE
    /\ skipAI' = FALSE
    /\ UNCHANGED <<procs, probe>>

(***************************************************************************)
(* executeAITurn                                                           *)
(***************************************************************************)
\* AITurnEnd that draws but leaves the AI as the current attacker
AITurnEndKeepsAttacker(state) ==
    IF state.top.phase = "attack_phase"
    THEN LET drawn == drawToHandSize(state.ai.taHand, state.top.taDeck,
                                     Len(state.ai.taHand) + 2)
         IN  [state EXCEPT !.ai.taHand = drawn.newHand,
                           !.top.taDeck = drawn.newDeck,
                           !.top.turnNumber = @ + 1]
    ELSE state

\* AITurnEnd drawing up to HAND_SIZE instead of two cards
AITurnEndDrawsToHandSize(state) ==
    IF state.top.phase = "attack_phase"
    THEN LET drawn == drawToHandSize(state.ai.taHand, state.top.taDeck, HAND_SIZE)
         IN  [state EXCEPT !.ai.taHand = drawn.newHand,
                           !.top.taDeck = drawn.newDeck,
                           !.top.currentAttacker = "player",
                           !.top.turnNumber = @ + 1]
    ELSE state

\* lines 640-649: the turn-end draw and flip, when the game goes on
AITurnEnd(state) ==
    IF state.top.phase = "attack_phase"
    THEN LET drawn == drawToHandSize(state.ai.taHand, state.top.taDeck,
                                     Len(state.ai.taHand) + 2)
         IN  [state EXCEPT !.ai.taHand = drawn.newHand,
                           !.top.taDeck = drawn.newDeck,
                           !.top.currentAttacker = "player",
                           !.top.turnNumber = @ + 1]
    ELSE state

\* AILoopHead with a loop test that also reads the skip flag
AILoopHeadStopsOnSkip(p, state, local, skip) ==
    IF local.continueAttacking /\ state.top.phase = "attack_phase" /\ ~ skip
    THEN LET ps == [procs EXCEPT ![p] = [local EXCEPT !.pc = "ai_target", !.ns = state.top]]
         IN  /\ gs' = state.top
             /\ procs' = ps
             /\ heap' = StoreAndCollect(state, state.top, ps)
             /\ skipAI' = skip
             /\ UNCHANGED <<isProcessing, probe>>
    ELSE LET final == AITurnEnd(state)
             ps == [procs EXCEPT ![p] = IdleProc]
         IN  /\ gs' = final.top
             /\ procs' = ps
             /\ heap' = StoreAndCollect(final, final.top, ps)
             /\ skipAI' = skip
             /\ isProcessing' = FALSE
             /\ UNCHANGED probe

\* The loop test of line 501 and what follows it up to the next await: the
\* loop body's first commit, or the code after the loop.  `local` is the
\* procedure's slot record with its locals as they stand.
AILoopHead(p, state, local, skip) ==
    IF local.continueAttacking /\ state.top.phase = "attack_phase"
    THEN LET ps == [procs EXCEPT ![p] = [local EXCEPT !.pc = "ai_target", !.ns = state.top]]
         IN  /\ gs' = state.top
             /\ procs' = ps
             /\ heap' = StoreAndCollect(state, state.top, ps)
             /\ skipAI' = skip
             /\ UNCHANGED <<isProcessing, probe>>
    ELSE LET final == AITurnEnd(state)
             ps == [procs EXCEPT ![p] = IdleProc]
         IN  /\ gs' = final.top
             /\ procs' = ps
             /\ heap' = StoreAndCollect(final, final.top, ps)
             /\ skipAI' = skip
             /\ isProcessing' = FALSE
             /\ UNCHANGED probe

\* lines 496-506: entry, from endTurn or performCoinFlip, with `state`
executeAITurn(p) ==
    LET state == World(procs[p].ns)
        local == [procs[p] EXCEPT !.continueAttacking = TRUE,
                                  !.difficulty = state.top.difficulty]
    IN  AILoopHead(p, state, local, FALSE)

\* lines 507-518
AIChooseTarget(p) ==
    /\ procs[p].pc = "ai_target"
    /\ LET state == World(procs[p].ns)
           target == aiChooseTarget(state.player.assets)
       IN  IF target = NoAsset
           THEN LET logged == [state EXCEPT !.top = addLogToState(@,
                                   [actor |-> "ai", action |-> "No Attack"])]
                IN  AILoopHead(p, logged, [procs[p] EXCEPT !.continueAttacking = FALSE],
                               skipAI)
           ELSE LET ps == [procs EXCEPT ![p] = [@ EXCEPT !.pc = "ai_card", !.target = target]]
                IN  /\ gs' = state.top
                    /\ procs' = ps
                    /\ heap' = StoreAndCollect(state, state.top, ps)
                    /\ UNCHANGED <<isProcessing, skipAI, probe>>

\* lines 520-557
AIChooseCard(p) ==
    /\ procs[p].pc = "ai_card"
    /\ \E random \in RandVals :
       LET state == World(procs[p].ns)
           target == procs[p].target
           attackCard == aiChooseAttackCard(state.ai.taHand, state.player.dcHand,
                                            DifficultyOr(procs[p].difficulty), random)
       IN  IF attackCard = NoCard
           THEN LET logged == [state EXCEPT !.top = addLogToState(@,
                                   [actor |-> "ai", action |-> "No Attack"])]
                IN  AILoopHead(p, logged, [procs[p] EXCEPT !.continueAttacking = FALSE],
                               skipAI)
           ELSE LET attacking ==
                        [state.top EXCEPT !.attackState =
                            [targetAsset |-> target,
                             attackCard |-> attackCard,
                             stage |-> Stage(target.state),
                             attacksThisRound |-> state.top.attackState.attacksThisRound + 1]]
                    logged == addLogToState(attacking, [actor |-> "ai", action |-> "Attack"])
                    ps == [procs EXCEPT ![p] = [@ EXCEPT !.pc = "ai_resolve", !.ns = logged,
                                                         !.attackCard = attackCard]]
                IN  /\ gs' = logged
                    /\ procs' = ps
                    /\ heap' = StoreAndCollect([state EXCEPT !.top = logged], logged, ps)
                    /\ UNCHANGED <<isProcessing, skipAI, probe>>

\* index of the asset with this instance id, 0 for findIndex's -1
FindAssetIndex(assets, instanceId) ==
    IF \E i \in 1..Len(assets) : assets[i].instanceId = instanceId
    THEN CHOOSE i \in 1..Len(assets) :
             /\ assets[i].instanceId = instanceId
             /\ \A j \in 1..(i - 1) : assets[j].instanceId # instanceId
    ELSE 0

\* FindDefense as it would be if a Defense Control card went before a Joker
FindDefensePrefersControl(dcHand, attackCard) ==
    LET valid == SelectSeq(dcHand, LAMBDA c : canDefend(CardOf[attackCard], CardOf[c]))
        control == SelectSeq(valid, LAMBDA c : Category(c) # "joker")
    IN  IF Len(valid) = 0 THEN NoCard
        ELSE IF Len(control) > 0 THEN control[1] ELSE valid[1]

\* hand.find(hc => canDefend(attackCard.card, hc.card)), NoCard for undefined
FindDefense(dcHand, attackCard) ==
    LET valid == SelectSeq(dcHand, LAMBDA c : canDefend(CardOf[attackCard], CardOf[c]))
    IN  IF Len(valid) = 0 THEN NoCard ELSE valid[1]

\* lines 561-588: the player's defense card blocks the AI's attack
AIAttackBlocked(state, attackCard, playerDefense) ==
    LET dcHand == RemoveCard(state.player.dcHand, playerDefense)
        drawn == drawToHandSize(dcHand, state.top.dcDeck, Len(dcHand) + 2)
    IN  [state EXCEPT
            !.ai.taHand = RemoveCard(@, attackCard),
            !.ai.taDiscard = Append(@, attackCard),
            !.player.dcHand = drawn.newHand,
            !.player.dcDiscard = Append(@, playerDefense),
            !.player.successfulDefenses = @ + 1,
            !.top = addLogToState([@ EXCEPT !.dcDeck = drawn.newDeck],
                                  [actor |-> "player", action |-> "Defended"])]

\* AIAttackHit leaving the played card in the AI's hand
AIAttackHitKeepsCard(state, attackCard, target) ==
    LET assetIndex == FindAssetIndex(state.player.assets, target.instanceId)
    IN  IF assetIndex # 0
        THEN [state EXCEPT
                !.player.assets[assetIndex] =
                    [@ EXCEPT !.state = getNextAssetState(target.state),
                              !.damageCount = @ + 1],
                !.ai.taDiscard = Append(@, attackCard),
                !.top = addLogToState(@, [actor |-> "ai", action |-> "Attack Hit"])]
        ELSE [state EXCEPT !.ai.taDiscard = Append(@, attackCard)]

\* lines 589-614: no defense, the target takes the hit
AIAttackHit(state, attackCard, target) ==
    LET assetIndex == FindAssetIndex(state.player.assets, target.instanceId)
        damaged ==
            IF assetIndex # 0
            THEN [state EXCEPT
                    !.player.assets[assetIndex] =
                        [@ EXCEPT !.state = getNextAssetState(target.state),
                                  !.damageCount = @ + 1],
                    !.top = addLogToState(@, [actor |-> "ai", action |-> "Attack Hit"])]
            ELSE state
    IN  [damaged EXCEPT !.ai.taHand = RemoveCard(@, attackCard),
                        !.ai.taDiscard = Append(@, attackCard)]

\* lines 559-636
AIResolve(p) ==
    /\ procs[p].pc = "ai_resolve"
    /\ \E random \in RandVals :
       LET state == World(procs[p].ns)
           attackCard == procs[p].attackCard
           playerDefense == FindDefense(state.player.dcHand, attackCard)
           resolved == IF playerDefense # NoCard
                       THEN AIAttackBlocked(state, attackCard, playerDefense)
                       ELSE AIAttackHit(state, attackCard, procs[p].target)
           continueAttacking ==
               IF playerDefense # NoCard THEN FALSE
               ELSE aiDecideContinueOrEnd(resolved.ai.taHand, resolved.player.assets,
                        DifficultyOr(procs[p].difficulty), random) = "attack"
           winCheck == checkWinCondition(resolved)
           won == winCheck # "attack_phase" /\ winCheck # "defense_phase"
           final == IF won THEN [resolved EXCEPT !.top.phase = winCheck] ELSE resolved
           ps == [procs EXCEPT ![p] =
                    [@ EXCEPT !.pc = "ai_after", !.ns = final.top,
                              !.continueAttacking = IF won THEN FALSE ELSE continueAttacking]]
       IN  /\ gs' = final.top
           /\ procs' = ps
           /\ heap' = StoreAndCollect(final, final.top, ps)
           /\ UNCHANGED <<isProcessing, skipAI, probe>>

\* lines 637-654, and line 501 when the loop goes round
AIAfter(p) ==
    /\ procs[p].pc = "ai_after"
    /\ AILoopHead(p, World(procs[p].ns), procs[p], skipAI)

(***************************************************************************)
(* performCoinFlip, called by the App effect; cgs and cproc are the        *)
(* gameState and isProcessing its closure captured                         *)
(***************************************************************************)
performCoinFlip(cgs, cproc) ==
    IF cgs.phase # "coin_flip" \/ cproc \/ cgs.difficulty = NoDifficulty
    THEN UNCHANGED vars
    ELSE /\ HasFreeSlot
         /\ procs' = [procs EXCEPT ![FreeSlot] = [IdleProc EXCEPT !.pc = "cf_flip", !.ns = cgs]]
         /\ isProcessing' = TRUE
         /\ UNCHANGED <<gs, heap, skipAI, probe>>

\* lines 286-299
CoinFlipResult(p) ==
    /\ procs[p].pc = "cf_flip"
    /\ \E random \in RandVals :
       LET result == IF random < 50 THEN "player" ELSE "ai"
       IN  /\ gs' = [gs EXCEPT !.coinFlipResult = result, !.currentAttacker = result]
           /\ procs' = [procs EXCEPT ![p] = [@ EXCEPT !.pc = "cf_done", !.result = result]]
    /\ UNCHANGED <<heap, isProcessing, skipAI, probe>>

\* lines 301-320
CoinFlipDone(p) ==
    /\ procs[p].pc = "cf_done"
    /\ LET result == procs[p].result
           nextState == [procs[p].ns EXCEPT !.coinFlipResult = result,
                                            !.currentAttacker = result,
                                            !.phase = "attack_phase"]
           ps == [procs EXCEPT ![p] =
                    IF result = "ai" THEN [@ EXCEPT !.pc = "cf_ai", !.ns = nextState]
                    ELSE IdleProc]
       IN  /\ gs' = nextState
           /\ procs' = ps
           /\ heap' = StoreAndCollect(World(nextState), nextState, ps)
           /\ isProcessing' = IF result = "ai" THEN isProcessing ELSE FALSE
    /\ UNCHANGED <<skipAI, probe>>

\* line 316
CoinFlipAITurn(p) ==
    /\ procs[p].pc = "cf_ai"
    /\ executeAITurn(p)

(***************************************************************************)
(* playerAttack                                                            *)
(***************************************************************************)
\* playerAttackReturns without its test of the phase
playerAttackReturnsInAnyPhase(cgs, cproc) ==
    \/ cproc
    \/ cgs.selectedCard = NoCard \/ cgs.selectedAsset = NoAsset
    \/ cgs.currentAttacker # "player"

\* lines 327-330: the early returns
playerAttackReturns(cgs, cproc) ==
    \/ cproc
    \/ cgs.selectedCard = NoCard \/ cgs.selectedAsset = NoAsset
    \/ cgs.phase # "attack_phase"
    \/ cgs.currentAttacker # "player"

\* lines 326-370
playerAttack(cgs, cproc) ==
    IF playerAttackReturns(cgs, cproc)
    THEN UNCHANGED vars
    ELSE /\ HasFreeSlot
         /\ LET attackCard == cgs.selectedCard
                targetAsset == cgs.selectedAsset
                attacking ==
                    [cgs EXCEPT !.attackState =
                                    [targetAsset |-> targetAsset,
                                     attackCard |-> attackCard,
                                     stage |-> Stage(targetAsset.state),
                                     attacksThisRound |-> cgs.attackState.attacksThisRound + 1],
                                !.phase = "defense_phase",
                                !.selectedCard = NoCard,
                                !.selectedAsset = NoAsset]
                newState == addLogToState(attacking, [actor |-> "player", action |-> "Attack"])
                ps == [procs EXCEPT ![FreeSlot] =
                         [IdleProc EXCEPT !.pc = "pa_defense", !.ns = newState,
                                          !.attackCard = attackCard, !.target = targetAsset]]
            IN  /\ gs' = newState
                /\ procs' = ps
                /\ heap' = StoreAndCollect(World(newState), newState, ps)
         /\ isProcessing' = TRUE
         /\ UNCHANGED <<skipAI, probe>>

\* PlayerAttackBlocked leaving the phase as the attack set it
PlayerAttackBlockedKeepsPhase(state, attackCard, defenseCard) ==
    LET dcHand == RemoveCard(state.ai.dcHand, defenseCard)
        drawn == drawToHandSize(dcHand, state.top.dcDeck, Len(dcHand) + 2)
        logged == addLogToState(
                      addLogToState([state.top EXCEPT !.dcDeck = drawn.newDeck],
                                    [actor |-> "ai", action |-> "Defended"]),
                      [actor |-> "player", action |-> "Attack Blocked"])
    IN  [state EXCEPT
            !.player.taHand = RemoveCard(@, attackCard),
            !.player.taDiscard = Append(@, attackCard),
            !.ai.dcHand = drawn.newHand,
            !.ai.dcDiscard = Append(@, defenseCard),
            !.ai.successfulDefenses = @ + 1,
            !.top = [logged EXCEPT !.attackState = NoAttackState]]

\* lines 375-420: the AI's defense card blocks the player's attack
PlayerAttackBlocked(state, attackCard, defenseCard) ==
    LET dcHand == RemoveCard(state.ai.dcHand, defenseCard)
        drawn == drawToHandSize(dcHand, state.top.dcDeck, Len(dcHand) + 2)
        logged == addLogToState(
                      addLogToState([state.top EXCEPT !.dcDeck = drawn.newDeck],
                                    [actor |-> "ai", action |-> "Defended"]),
                      [actor |-> "player", action |-> "Attack Blocked"])
    IN  [state EXCEPT
            !.player.taHand = RemoveCard(@, attackCard),
            !.player.taDiscard = Append(@, attackCard),
            !.ai.dcHand = drawn.newHand,
            !.ai.dcDiscard = Append(@, defenseCard),
            !.ai.successfulDefenses = @ + 1,
            !.top = [logged EXCEPT !.phase = "attack_phase",
                                   !.attackState = NoAttackState]]

\* PlayerAttackHit discarding the card without taking it out of the hand
PlayerAttackHitKeepsCard(state, attackCard, targetAsset) ==
    LET assetIndex == FindAssetIndex(state.ai.assets, targetAsset.instanceId)
        damaged ==
            IF assetIndex # 0
            THEN [state EXCEPT
                    !.ai.assets[assetIndex] =
                        [@ EXCEPT !.state = getNextAssetState(targetAsset.state),
                                  !.damageCount = @ + 1],
                    !.top = addLogToState(@, [actor |-> "player", action |-> "Attack Hit"])]
            ELSE state
    IN  [damaged EXCEPT !.player.taDiscard = Append(@, attackCard),
                        !.top.phase = "attack_phase",
                        !.top.attackState = NoAttackState]

\* lines 422-451: no defense, the target takes the hit
PlayerAttackHit(state, attackCard, targetAsset) ==
    LET assetIndex == FindAssetIndex(state.ai.assets, targetAsset.instanceId)
        damaged ==
            IF assetIndex # 0
            THEN [state EXCEPT
                    !.ai.assets[assetIndex] =
                        [@ EXCEPT !.state = getNextAssetState(targetAsset.state),
                                  !.damageCount = @ + 1],
                    !.top = addLogToState(@, [actor |-> "player", action |-> "Attack Hit"])]
            ELSE state
    IN  [damaged EXCEPT !.player.taHand = RemoveCard(@, attackCard),
                        !.player.taDiscard = Append(@, attackCard),
                        !.top.phase = "attack_phase",
                        !.top.attackState = NoAttackState]

\* lines 373-464
PlayerAttackResolve(p) ==
    /\ procs[p].pc = "pa_defense"
    /\ \E random \in RandVals :
       LET state == World(procs[p].ns)
           attackCard == procs[p].attackCard
           defenseCard == aiChooseDefense(state.ai.dcHand, attackCard,
                                          DifficultyOr(procs[p].ns.difficulty), random)
           resolved == IF defenseCard # NoCard
                       THEN PlayerAttackBlocked(state, attackCard, defenseCard)
                       ELSE PlayerAttackHit(state, attackCard, procs[p].target)
           win == getWinReason(resolved)
           final == IF win # "none"
                    THEN [resolved EXCEPT !.top =
                            addLogToState([@ EXCEPT !.phase = win],
                                [actor |-> IF win = "player_won" THEN "player" ELSE "ai",
                                 action |-> "Game End"])]
                    ELSE resolved
           ps == [procs EXCEPT ![p] = [@ EXCEPT !.pc = "pa_end", !.ns = final.top]]
       IN  /\ gs' = final.top
           /\ procs' = ps
           /\ heap' = StoreAndCollect(final, final.top, ps)
    /\ UNCHANGED <<isProcessing, skipAI, probe>>

\* PlayerAttackEnd returning without setIsProcessing(false)
PlayerAttackEndKeepsLock(p) ==
    /\ procs[p].pc = "pa_end"
    /\ LET ps == [procs EXCEPT ![p] = IdleProc]
       IN  /\ procs' = ps
           /\ heap' = StoreAndCollect(World(gs), gs, ps)
    /\ UNCHANGED <<gs, isProcessing, skipAI, probe>>

\* lines 465-467
PlayerAttackEnd(p) ==
    /\ procs[p].pc = "pa_end"
    /\ LET ps == [procs EXCEPT ![p] = IdleProc]
       IN  /\ procs' = ps
           /\ heap' = StoreAndCollect(World(gs), gs, ps)
    /\ isProcessing' = FALSE
    /\ UNCHANGED <<gs, skipAI, probe>>

(***************************************************************************)
(* endTurn                                                                 *)
(***************************************************************************)
\* lines 471-473: the early returns
endTurnReturns(cgs, cproc) ==
    \/ cproc
    \/ cgs.phase # "attack_phase"
    \/ cgs.currentAttacker # "player"

\* lines 470-492
endTurn(cgs, cproc) ==
    IF endTurnReturns(cgs, cproc)
    THEN UNCHANGED vars
    ELSE /\ HasFreeSlot
         /\ LET state == World(cgs)
                drawn == drawToHandSize(state.player.taHand, cgs.taDeck,
                                        Len(state.player.taHand) + 2)
                newState == [state EXCEPT !.player.taHand = drawn.newHand,
                                          !.top.taDeck = drawn.newDeck,
                                          !.top.currentAttacker = "ai",
                                          !.top.turnNumber = @ + 1,
                                          !.top.selectedCard = NoCard,
                                          !.top.selectedAsset = NoAsset]
                ps == [procs EXCEPT ![FreeSlot] =
                         [IdleProc EXCEPT !.pc = "et_wait", !.ns = newState.top]]
            IN  /\ gs' = newState.top
                /\ procs' = ps
                /\ heap' = StoreAndCollect(newState, newState.top, ps)
         /\ isProcessing' = TRUE
         /\ UNCHANGED <<skipAI, probe>>

\* line 493
EndTurnAITurn(p) ==
    /\ procs[p].pc = "et_wait"
    /\ executeAITurn(p)

(***************************************************************************)
(* The game: the inputs of the presentation layer, taken against the       *)
(* latest committed state, and the steps of the procedures in flight       *)
(***************************************************************************)
CurrentPlayer == heap[gs.gen].player
CurrentAI == heap[gs.gen].ai

\* A hand card handle the caller still holds for the card the player played
\* last, used once the hand has run out.
StaleCards ==
    IF /\ Len(CurrentPlayer.taHand) = 0
       /\ Len(CurrentPlayer.taDiscard) \in 1..(HAND_SIZE + MaxStale - 1)
    THEN {CurrentPlayer.taDiscard[Len(CurrentPlayer.taDiscard)]}
    ELSE {}

SelectableCards ==
    {NoCard} \cup StaleCards
    \cup {CurrentPlayer.taHand[i] : i \in 1..Min(MaxPick, Len(CurrentPlayer.taHand))}

\* Board.tsx lines 59-63: the assets the board lets the player click
ClickableAssets == SelectSeq(CurrentAI.assets, LAMBDA a : a.state # "destroyed")

\* a handle the caller holds for an asset that has been destroyed
StaleAssets ==
    {CurrentAI.assets[i] : i \in {j \in 1..Len(CurrentAI.assets) :
        /\ CurrentAI.assets[j].state = "destroyed"
        /\ CurrentAI.assets[j].damageCount < LifecycleIndex("destroyed") + MaxStale}}

SelectableAssets ==
    {NoAsset} \cup StaleAssets
    \cup {ClickableAssets[i] : i \in 1..Min(MaxTargetPick, Len(ClickableAssets))}

\* The inputs arrive between procedures, except the skip request, which is
\* what the player does while one runs.
SelectCard == Quiet /\ \E card \in SelectableCards : selectCard(card)

SelectAsset == Quiet /\ \E asset \in SelectableAssets : selectAsset(asset)

\* The difficulty is chosen at the start of a game, and once more, as the
\* top level, after a game played below it has ended.
SetDifficulty ==
    /\ Quiet
    /\ \E difficulty \in Difficulties :
          /\ \/ gs.phase = "difficulty_select"
             \/ Terminal(gs.phase) /\ difficulty = "brutal" /\ gs.difficulty # "brutal"
          /\ setDifficulty(difficulty)

\* a win condition holds in the committed state
Decided == Terminal(checkWinCondition(World(gs)))

\* The player's moves are followed up to MaxTurn and up to the point where
\* the game is decided.
Attack == gs.turnNumber <= MaxTurn /\ ~ Decided /\ playerAttack(gs, isProcessing)

EndTurn == gs.turnNumber < MaxTurn /\ ~ Decided /\ endTurn(gs, isProcessing)

\* part_003 lines 153-160: the skip button is there while the AI has the turn
Skip == ~ Quiet /\ gs.currentAttacker = "ai" /\ ~ Terminal(gs.phase) /\ requestSkipAI

Reset == Quiet /\ \E deal \in Deals : resetGame(deal)

\* part_000 lines 31-35
AppEffect == gs.phase = "coin_flip" /\ ~ isProcessing /\ performCoinFlip(gs, isProcessing)

Step(p) ==
    \/ CoinFlipResult(p)
    \/ CoinFlipDone(p)
    \/ CoinFlipAITurn(p)
    \/ PlayerAttackResolve(p)
    \/ PlayerAttackEnd(p)
    \/ EndTurnAITurn(p)
    \/ AIChooseTarget(p)
    \/ AIChooseCard(p)
    \/ AIResolve(p)
    \/ AIAfter(p)

Init ==
    \E deal \in Deals :
        LET fresh == DealtGames[1][deal]
        IN  /\ gs = fresh.top
            /\ heap = [g \in Gens |-> IF g = 1
                                      THEN [player |-> fresh.player, ai |-> fresh.ai]
                                      ELSE NoObjects]
            /\ isProcessing = FALSE
            /\ skipAI = FALSE
            /\ procs = [p \in Procs |-> IdleProc]
            /\ probe = NoProbe

Next ==
    \/ SelectCard
    \/ SelectAsset
    \/ SetDifficulty
    \/ Attack
    \/ EndTurn
    \/ Skip
    \/ Reset
    \/ AppEffect
    \/ \E p \in Procs : Step(p)

Spec == Init /\ [][Next]_vars

(***************************************************************************)
(* The game as the presentation layer lets it be played: the difficulty is *)
(* chosen once, the card selected is one of the hand, the target one the   *)
(* board offers.  SpecFair follows the first turns and lets every pending  *)
(* timer fire (an awaited delay always expires); SpecTurns lets the player *)
(* go on ending turns until the attack draw pile has run out.              *)
(***************************************************************************)
ChooseDifficulty ==
    /\ Quiet /\ gs.phase = "difficulty_select"
    /\ \E difficulty \in Difficulties : setDifficulty(difficulty)

PickCard ==
    /\ Quiet /\ gs.phase = "attack_phase" /\ gs.currentAttacker = "player"
    /\ gs.turnNumber <= MaxFairTurn
    /\ gs.selectedCard = NoCard /\ Len(CurrentPlayer.taHand) > 0
    /\ selectCard(CurrentPlayer.taHand[1])

PickAsset ==
    /\ Quiet /\ gs.selectedCard # NoCard /\ gs.selectedAsset = NoAsset
    /\ Len(ClickableAssets) > 0
    /\ selectAsset(ClickableAssets[1])

FirstTurnsAttack ==
    gs.turnNumber <= MaxFairTurn /\ ~ Decided /\ playerAttack(gs, isProcessing)

FirstTurnsEndTurn ==
    gs.turnNumber <= MaxFairTurn /\ ~ Decided /\ endTurn(gs, isProcessing)

EndTurnLong == gs.turnNumber < MaxLongTurn /\ ~ Decided /\ endTurn(gs, isProcessing)

NextFair ==
    \/ ChooseDifficulty
    \/ AppEffect
    \/ PickCard
    \/ PickAsset
    \/ FirstTurnsAttack
    \/ FirstTurnsEndTurn
    \/ \E p \in Procs : Step(p)

SpecFair == Init /\ [][NextFair]_vars /\ WF_vars(\E p \in Procs : Step(p))

\* SpecFair with the skip button
NextFairSkip ==
    \/ ChooseDifficulty
    \/ AppEffect
    \/ PickCard
    \/ PickAsset
    \/ FirstTurnsAttack
    \/ FirstTurnsEndTurn
    \/ Skip
    \/ \E p \in Procs : Step(p)

SpecFairSkip == Init /\ [][NextFairSkip]_vars /\ WF_vars(\E p \in Procs : Step(p))

NextTurns ==
    \/ ChooseDifficulty
    \/ AppEffect
    \/ PickCard
    \/ PickAsset
    \/ FirstTurnsAttack
    \/ EndTurnLong
    \/ Skip
    \/ \E p \in Procs : Step(p)

SpecTurns == Init /\ [][NextTurns]_vars

(***************************************************************************)
(* A whole game played through the board at the easy level, the player     *)
(* having won the coin flip: the player attacks with the first card of the *)
(* hand, spreads the attacks over the AI's assets, and ends the turn when  *)
(* the hand has run out.                                                   *)
(***************************************************************************)
\* the deal followed: the second of Deals
WholeGameDeal == << <<20, 50>>, <<13, 50>> >>

InitWholeGame ==
    LET fresh == DealtGames[1][WholeGameDeal]
    IN  /\ gs = fresh.top
        /\ heap = [g \in Gens |-> IF g = 1
                                  THEN [player |-> fresh.player, ai |-> fresh.ai]
                                  ELSE NoObjects]
        /\ isProcessing = FALSE
        /\ skipAI = FALSE
        /\ procs = [p \in Procs |-> IdleProc]
        /\ probe = NoProbe

ChooseEasy == Quiet /\ gs.phase = "difficulty_select" /\ setDifficulty("easy")

\* the clickable asset attacked least so far, the first of them
LeastDamaged ==
    LET i == CHOOSE i \in 1..Len(ClickableAssets) :
                 /\ \A j \in 1..Len(ClickableAssets) :
                        ClickableAssets[j].damageCount >= ClickableAssets[i].damageCount
                 /\ \A j \in 1..(i - 1) :
                        ClickableAssets[j].damageCount > ClickableAssets[i].damageCount
    IN  ClickableAssets[i]

PickCardWholeGame ==
    /\ Quiet /\ gs.phase = "attack_phase" /\ gs.currentAttacker = "player"
    /\ gs.coinFlipResult = "player"
    /\ gs.selectedCard = NoCard /\ Len(CurrentPlayer.taHand) > 0
    /\ selectCard(CurrentPlayer.taHand[1])

PickAssetWholeGame ==
    /\ Quiet /\ gs.selectedCard # NoCard /\ gs.selectedAsset = NoAsset
    /\ Len(ClickableAssets) > 0
    /\ selectAsset(LeastDamaged)

AttackWholeGame == ~ Decided /\ playerAttack(gs, isProcessing)

EndTurnWholeGame ==
    /\ gs.coinFlipResult = "player"
    /\ Len(CurrentPlayer.taHand) = 0
    /\ gs.turnNumber < MaxWholeTurn
    /\ ~ Decided
    /\ endTurn(gs, isProcessing)

NextWholeGame ==
    \/ ChooseEasy
    \/ AppEffect
    \/ PickCardWholeGame
    \/ PickAssetWholeGame
    \/ AttackWholeGame
    \/ EndTurnWholeGame
    \/ \E p \in Procs : Step(p)

SpecWholeGame == InitWholeGame /\ [][NextWholeGame]_vars

(***************************************************************************)
(* Overlapping calls: the handlers are closures over the gameState and     *)
(* isProcessing of the render that made them, and "Play Again" is there    *)
(* from the moment a terminal phase is committed                           *)
(***************************************************************************)
\* attack() called again through the handler the first call was made
\* through, before a render has replaced it: its closure holds the same
\* gameState and isProcessing = false, so the guards of lines 327-330 pass
\* again and the call computes the same newState, commits it (no change)
\* and suspends at the same await
SecondAttack ==
    \E p \in Procs :
        /\ procs[p].pc = "pa_defense"
        /\ gs = procs[p].ns
        /\ Len(CurrentPlayer.taHand) <= MaxOverlapHand
        /\ HasFreeSlot
        /\ procs' = [procs EXCEPT ![FreeSlot] = procs[p]]
        /\ isProcessing' = TRUE
        /\ UNCHANGED <<gs, heap, skipAI, probe>>

\* part_003 lines 132-137: "Play Again" pressed at the end of the first
\* game, before the procedure that committed the terminal phase has returned
PlayAgain == Terminal(gs.phase) /\ ~ Quiet /\ gs.gen = 1 /\ \E deal \in Deals : resetGame(deal)

\* part_000 lines 73-89: the difficulty buttons of the new game
ChooseDifficultyAnyTime ==
    gs.phase = "difficulty_select" /\ \E difficulty \in Difficulties : setDifficulty(difficulty)

\* The first game is followed move by move, the game "Play Again" starts up
\* to the player's first move.
FirstGamePickCard == gs.gen = 1 /\ PickCard

FirstGameEndTurn == gs.gen = 1 /\ Quiet /\ EndTurn

\* part_003 lines 148-149: "End Turn" pressed while the AI turn that
\* performCoinFlip started is still running, in the wait after an attack
EndTurnInFirstAITurn ==
    /\ \E p \in Procs : procs[p].result = "ai" /\ procs[p].pc = "ai_after"
    /\ gs.turnNumber = 1
    /\ endTurn(gs, isProcessing)

NextRace ==
    \/ ChooseDifficultyAnyTime
    \/ AppEffect
    \/ FirstGamePickCard
    \/ PickAsset
    \/ FirstTurnsAttack
    \/ SecondAttack
    \/ FirstGameEndTurn
    \/ EndTurnInFirstAITurn
    \/ PlayAgain
    \/ \E p \in Procs : Step(p)

SpecRace == Init /\ [][NextRace]_vars

(***************************************************************************)
(* The pure functions on their own: Init draws the arguments, the action   *)
(* applies the function                                                    *)
(***************************************************************************)
NoGame ==
    /\ gs = NoTop
    /\ heap = [g \in Gens |-> NoObjects]
    /\ isProcessing = FALSE
    /\ skipAI = FALSE
    /\ procs = [p \in Procs |-> IdleProc]

\* the cards of the categories canDefend distinguishes
PlayableCards ==
    {id \in CardIds : Category(id) \in {"threat_agent", "defense_control", "joker"}}

InitCanDefend ==
    /\ NoGame
    /\ \E a, d \in PlayableCards :
         probe = [NoProbe EXCEPT !.fn = "canDefend", !.attackCard = a, !.defenseCard = d]

ApplyCanDefend ==
    /\ probe.fn = "canDefend"
    /\ ~ probe.done
    /\ probe' = [probe EXCEPT
                    !.done = TRUE,
                    !.defends = canDefend(CardOf[probe.attackCard], CardOf[probe.defenseCard])]
    /\ UNCHANGED <<gs, heap, isProcessing, skipAI, procs>>

SpecCanDefend == InitCanDefend /\ [][ApplyCanDefend]_vars

\* ASSETS_PER_PLAYER assets of which the first `destroyed` are destroyed
AssetsWith(destroyed) ==
    [i \in 1..ASSETS_PER_PLAYER |->
        IF i <= destroyed
        THEN [instanceId |-> i, state |-> "destroyed",
              damageCount |-> LifecycleIndex("destroyed")]
        ELSE [instanceId |-> i, state |-> "facedown", damageCount |-> 0]]

\* the GameState the win probe describes
ProbeState ==
    [top    |-> [NoTop EXCEPT !.phase = probe.phase],
     player |-> [NoPlayerState EXCEPT !.assets = AssetsWith(probe.playerDestroyed),
                                      !.successfulDefenses = probe.playerDefenses],
     ai     |-> [NoPlayerState EXCEPT !.assets = AssetsWith(probe.aiDestroyed),
                                      !.successfulDefenses = probe.aiDefenses]]

InitWin ==
    /\ NoGame
    /\ \E pd, ad \in 0..ASSETS_PER_PLAYER, pdef, adef \in 0..MaxProbeDefenses,
          phase \in {"attack_phase", "defense_phase"} :
         probe = [NoProbe EXCEPT !.fn = "win", !.phase = phase,
                                 !.playerDestroyed = pd, !.aiDestroyed = ad,
                                 !.playerDefenses = pdef, !.aiDefenses = adef]

ApplyWin ==
    /\ probe.fn = "win"
    /\ ~ probe.done
    /\ probe' = [probe EXCEPT !.done = TRUE,
                              !.checked = checkWinCondition(ProbeState),
                              !.reason = getWinReason(ProbeState)]
    /\ UNCHANGED <<gs, heap, isProcessing, skipAI, procs>>

SpecWin == InitWin /\ [][ApplyWin]_vars

(***************************************************************************)
(* The identifiers of a session.  The game model above stands for a card   *)
(* by its position 1..54 in the creation order of its deck and for a hand  *)
(* card or an asset by the card it wraps; here the identifiers are the     *)
(* strings the code builds: generateCardId counts in the module-level      *)
(* cardIdCounter, generateInstanceId joins Date.now() and a value of the   *)
(* random source.  probe holds the counter, the clock and the snapshot of  *)
(* every game dealt so far in the session.                                 *)
(***************************************************************************)
InitIds ==
    /\ NoGame
    /\ probe = [fn |-> "ids", cardIdCounter |-> 0, now |-> 0, games |-> << >>]

\* Date.now() moves on
ClockTick ==
    /\ probe.fn = "ids"
    /\ probe.now < MaxClock
    /\ probe' = [probe EXCEPT !.now = @ + 1]
    /\ UNCHANGED <<gs, heap, isProcessing, skipAI, procs>>

\* initializeGame() of the mount or of a reset(), with the random source
\* stubbed to the values of `deal`: Card(c) is the id generateCardId gave the
\* c-th card this generateFullDeck() created, HandCard and Asset the
\* wrappers of createHandCard and createCyberAsset
DealGame ==
    /\ probe.fn = "ids"
    /\ Len(probe.games) < MaxSessionGames
    /\ \E deal \in Deals :
         LET game == initializeGame(1, deal[1], deal[2])
             Card(c) == probe.cardIdCounter + c
             generateInstanceId == <<probe.now, deal[1][2]>>
             HandCard(c) == [instanceId |-> generateInstanceId, card |-> Card(c)]
             Asset(a) == [instanceId |-> generateInstanceId, card |-> Card(a.instanceId)]
             Cards(pile) == [i \in 1..Len(pile) |-> Card(pile[i])]
             Hand(hand) == [i \in 1..Len(hand) |-> HandCard(hand[i])]
             Side(side) == [assets |-> [i \in 1..Len(side.assets) |-> Asset(side.assets[i])],
                            taHand |-> Hand(side.taHand),
                            dcHand |-> Hand(side.dcHand)]
             snapshot == [random |-> deal,
                          taDeck |-> Cards(game.top.taDeck),
                          dcDeck |-> Cards(game.top.dcDeck),
                          player |-> Side(game.player),
                          ai |-> Side(game.ai)]
         IN  probe' = [probe EXCEPT !.cardIdCounter = @ + RedJoker,
                                    !.games = Append(@, snapshot)]
    /\ UNCHANGED <<gs, heap, isProcessing, skipAI, procs>>

NextIds == ClockTick \/ DealGame

SpecIds == InitIds /\ [][NextIds]_vars

(***************************************************************************)
(* Zones                                                                   *)
(***************************************************************************)
\* the committed GameState with the PlayerState objects it points to
Current == World(gs)

\* the five attack zones and the five defense zones, end to end
TAZones ==
    gs.taDeck \o Current.player.taHand \o Current.ai.taHand
    \o Current.player.taDiscard \o Current.ai.taDiscard

DCZones ==
    gs.dcDeck \o Current.player.dcHand \o Current.ai.dcHand
    \o Current.player.dcDiscard \o Current.ai.dcDiscard

\* the cards initializeGame puts into the attack pile and the defense pile
AttackCards == Range(generateFullDeck.taCards) \cup {generateFullDeck.jokers[1]}
DefenseCards == Range(generateFullDeck.dcCards) \cup {generateFullDeck.jokers[2]}

\* entries of seq that repeat an earlier entry
Copies(seq) == Len(seq) - Cardinality(Range(seq))

Dealt == gs.gen # 0

C2_ExactlyOneZone ==
    Dealt =>
        /\ \A c \in AttackCards : Count(TAZones, c) = 1
        /\ \A c \in DefenseCards : Count(DCZones, c) = 1

(***************************************************************************)
(* C3  canDefend(attack, defense) is true iff the attack card is a Joker,  *)
(* or the defense card is a Joker, or the attack is a Threat Agent, the    *)
(* defense a Defense Control and their values are equal.                   *)
(***************************************************************************)
C3_MatchRule ==
    (probe.fn = "canDefend" /\ probe.done) =>
        LET a == probe.attackCard
            d == probe.defenseCard
        IN  probe.defends <=>
                \/ Category(a) = "joker"
                \/ Category(d) = "joker"
                \/ /\ Category(a) = "threat_agent"
                   /\ Category(d) = "defense_control"
                   /\ Value(a) = Value(d)

\* a Joker attack met by a Defense Control card has been judged, and defends
C3_Witness ==
    /\ probe.fn = "canDefend" /\ probe.done
    /\ Category(probe.attackCard) = "joker"
    /\ Category(probe.defenseCard) = "defense_control"
    /\ probe.defends

(***************************************************************************)
(* C4  An asset's damage counter equals its lifecycle index (facedown 0,   *)
(* revealed 1, rotated 2, destroyed 3) at every reachable state, for every *)
(* asset of either side.                                                   *)
(***************************************************************************)
C4_DamageIsIndex ==
    \A side \in {Current.player, Current.ai} :
        \A i \in 1..Len(side.assets) :
            side.assets[i].damageCount = LifecycleIndex(side.assets[i].state)

(***************************************************************************)
(* C5  attack() with a selected target that is already destroyed is        *)
(* rejected: no player attack is ever in flight against a destroyed asset. *)
(***************************************************************************)
C5_DestroyedTargetRejected ==
    \A p \in Procs :
        procs[p].pc \in {"pa_defense", "pa_end"} => procs[p].target.state # "destroyed"

(***************************************************************************)
(* Steps that resolve an attack: before and after are the PlayerState      *)
(* objects of the procedure's game, the draw piles are those of its        *)
(* newState before the step and of the state it commits                    *)
(***************************************************************************)
PlayerResolves(p) == procs[p].pc = "pa_defense" /\ procs'[p].pc = "pa_end"
AIResolves(p) == procs[p].pc = "ai_resolve" /\ procs'[p].pc = "ai_after"

Before(p) == heap[procs[p].ns.gen]
After(p) == heap'[procs[p].ns.gen]

\* the defender has played a defense card in this step
Blocked(def, def2) == Len(def2.dcDiscard) = Len(def.dcDiscard) + 1

\* what an unblocked attack with `card` on `target` does and leaves alone
UnblockedFrame(att, def, att2, def2, top, top2, card, target) ==
    LET i == FindAssetIndex(def.assets, target.instanceId)
    IN  /\ i # 0
        /\ LifecycleIndex(def2.assets[i].state) = LifecycleIndex(def.assets[i].state) + 1
        /\ def2.assets[i].damageCount = def.assets[i].damageCount + 1
        /\ \A j \in 1..Len(def.assets) : j # i => def2.assets[j] = def.assets[j]
        /\ att2.assets = att.assets
        /\ Count(att.taHand, card) = 1
        /\ att2.taHand = RemoveCard(att.taHand, card)
        /\ att2.taDiscard = Append(att.taDiscard, card)
        /\ def2.taHand = def.taHand /\ def2.taDiscard = def.taDiscard
        /\ att2.dcHand = att.dcHand /\ def2.dcHand = def.dcHand
        /\ att2.dcDiscard = att.dcDiscard /\ def2.dcDiscard = def.dcDiscard
        /\ top2.taDeck = top.taDeck /\ top2.dcDeck = top.dcDeck
        /\ att2.successfulDefenses = att.successfulDefenses
        /\ def2.successfulDefenses = def.successfulDefenses

\* what a blocked attack with `card` does and leaves alone
BlockedFrame(att, def, att2, def2, top, top2, card) ==
    LET defense == def2.dcDiscard[Len(def2.dcDiscard)]
        drawn == Min(2, Len(top.dcDeck))
    IN  /\ Count(att.taHand, card) = 1
        /\ att2.taHand = RemoveCard(att.taHand, card)
        /\ att2.taDiscard = Append(att.taDiscard, card)
        /\ Count(def.dcHand, defense) = 1
        /\ def2.dcDiscard = Append(def.dcDiscard, defense)
        /\ def2.dcHand = RemoveCard(def.dcHand, defense) \o SubSeq(top.dcDeck, 1, drawn)
        /\ top2.dcDeck = SubSeq(top.dcDeck, drawn + 1, Len(top.dcDeck))
        /\ def2.successfulDefenses = def.successfulDefenses + 1
        /\ att2.successfulDefenses = att.successfulDefenses
        /\ att2.assets = att.assets /\ def2.assets = def.assets

(***************************************************************************)
(* C6  An unblocked attack, by the player or by the AI, advances exactly   *)
(* the targeted asset by one lifecycle state and its damage by 1, moves    *)
(* exactly the attack card from the attacker's hand to the attacker's      *)
(* discard, and leaves every other asset, the defense hands and discards,  *)
(* the draw piles and the successful-defense counters unchanged.           *)
(***************************************************************************)
C6_UnblockedAttack ==
    [][\A p \in Procs :
        /\ (PlayerResolves(p) /\ ~ Blocked(Before(p).ai, After(p).ai)) =>
              UnblockedFrame(Before(p).player, Before(p).ai, After(p).player, After(p).ai,
                             procs[p].ns, gs', procs[p].attackCard, procs[p].target)
        /\ (AIResolves(p) /\ ~ Blocked(Before(p).player, After(p).player)) =>
              UnblockedFrame(Before(p).ai, Before(p).player, After(p).ai, After(p).player,
                             procs[p].ns, gs', procs[p].attackCard, procs[p].target)
      ]_vars

(***************************************************************************)
(* C7  A blocked attack, in either direction, moves the attack card from   *)
(* the attacker's hand to the attacker's discard and the defense card from *)
(* the defender's hand to the defender's discard, adds exactly 1 to the    *)
(* defender's successful-defense counter, then moves min(2, pile size)     *)
(* cards from the front of the defense draw pile to the defender's hand,   *)
(* and leaves every asset unchanged.                                       *)
(***************************************************************************)
C7_BlockedAttack ==
    [][\A p \in Procs :
        /\ (PlayerResolves(p) /\ Blocked(Before(p).ai, After(p).ai)) =>
              BlockedFrame(Before(p).player, Before(p).ai, After(p).player, After(p).ai,
                           procs[p].ns, gs', procs[p].attackCard)
        /\ (AIResolves(p) /\ Blocked(Before(p).player, After(p).player)) =>
              BlockedFrame(Before(p).ai, Before(p).player, After(p).ai, After(p).player,
                           procs[p].ns, gs', procs[p].attackCard)
      ]_vars

(***************************************************************************)
(* C8  Win conditions are evaluated after every resolved attack: no state  *)
(* with phase attack_phase has a side with 2 or more destroyed assets or a *)
(* side with a successful-defense counter of 6 or more.                    *)
(***************************************************************************)
C8_NoWinInAttackPhase ==
    gs.phase = "attack_phase" =>
        \A side \in {Current.player, Current.ai} :
            DestroyedCount(side.assets) < 2 /\ side.successfulDefenses < 6

(***************************************************************************)
(* C9  The winner is decided by the first satisfied condition in the order *)
(* player has >= 2 destroyed assets -> ai_won; AI has >= 2 destroyed       *)
(* assets -> player_won; player defenses >= 6 -> player_won; AI defenses   *)
(* >= 6 -> ai_won; and getWinReason and checkWinCondition report the same  *)
(* winner (checkWinCondition the unchanged phase where getWinReason has    *)
(* none).                                                                  *)
(***************************************************************************)
C9_WinPriority ==
    (probe.fn = "win" /\ probe.done) =>
        LET winner == IF probe.playerDestroyed >= 2 THEN "ai_won"
                      ELSE IF probe.aiDestroyed >= 2 THEN "player_won"
                      ELSE IF probe.playerDefenses >= 6 THEN "player_won"
                      ELSE IF probe.aiDefenses >= 6 THEN "ai_won"
                      ELSE "none"
        IN  /\ probe.reason = winner
            /\ probe.checked = IF winner = "none" THEN probe.phase ELSE winner

\* 2 AI assets destroyed and 6 AI defenses: both evaluators say player_won
C9_Witness ==
    /\ probe.fn = "win" /\ probe.done
    /\ probe.aiDestroyed = 2 /\ probe.aiDefenses = 6
    /\ probe.playerDestroyed < 2
    /\ probe.reason = "player_won" /\ probe.checked = "player_won"

(***************************************************************************)
(* C10  A terminal phase is frozen: once phase is player_won or ai_won,    *)
(* no step other than a reset changes the phase, a hand, a pile, a         *)
(* discard, an asset or a successful-defense counter.                      *)
(***************************************************************************)
C10_TerminalFrozen ==
    [][Terminal(gs.phase) =>
         \/ gs'.phase = "difficulty_select"
         \/ /\ gs'.phase = gs.phase
            /\ gs'.taDeck = gs.taDeck /\ gs'.dcDeck = gs.dcDeck
            /\ heap'[gs'.gen] = heap[gs.gen]
      ]_vars

(***************************************************************************)
(* C11  attack() called when the phase is not attack_phase, or the current *)
(* attacker is not the player, or no card is selected, or no target is     *)
(* selected, and endTurn() called when the phase is not attack_phase or    *)
(* the current attacker is not the player, change nothing: the committed   *)
(* GameState, the PlayerState objects, the processing flag and the         *)
(* procedures in flight are as before the call.                            *)
(***************************************************************************)
AttackOutOfPlace ==
    \/ gs.phase # "attack_phase" \/ gs.currentAttacker # "player"
    \/ gs.selectedCard = NoCard \/ gs.selectedAsset = NoAsset

EndTurnOutOfPlace == gs.phase # "attack_phase" \/ gs.currentAttacker # "player"

C11_RejectedCallsChangeNothing ==
    [][/\ (AttackOutOfPlace /\ playerAttack(gs, isProcessing)) =>
              UNCHANGED <<gs, heap, isProcessing, procs>>
       /\ (EndTurnOutOfPlace /\ endTurn(gs, isProcessing)) =>
              UNCHANGED <<gs, heap, isProcessing, procs>>
      ]_vars

\* the player's turn in attack_phase, nothing in flight, a card selected but
\* no target: attack() can be called here and returns at once
C11_Witness ==
    /\ ~ isProcessing /\ Quiet
    /\ gs.phase = "attack_phase" /\ gs.currentAttacker = "player"
    /\ gs.selectedCard # NoCard /\ gs.selectedAsset = NoAsset
    /\ gs.turnNumber <= MaxTurn /\ ~ Decided

(***************************************************************************)
(* C12  The phase changes only along difficulty_select -> coin_flip,       *)
(* coin_flip -> attack_phase, attack_phase -> defense_phase,               *)
(* defense_phase -> attack_phase, defense_phase -> player_won,             *)
(* defense_phase -> ai_won, and back to difficulty_select by a reset; in   *)
(* particular the phase becomes coin_flip only from difficulty_select.     *)
(***************************************************************************)
C12_PhaseEdges ==
    [][\/ gs'.phase = gs.phase
       \/ gs'.phase = "difficulty_select"
       \/ <<gs.phase, gs'.phase>> \in
              {<<"difficulty_select", "coin_flip">>,
               <<"coin_flip", "attack_phase">>,
               <<"attack_phase", "defense_phase">>,
               <<"defense_phase", "attack_phase">>,
               <<"defense_phase", "player_won">>,
               <<"defense_phase", "ai_won">>}
      ]_vars

(***************************************************************************)
(* C13  defense_phase is transient: whenever the phase is defense_phase an *)
(* attack() is in flight (isProcessing is true), the phase leaves          *)
(* defense_phase only by that invocation resolving the attack, to          *)
(* attack_phase, player_won or ai_won, and it always does.                 *)
(***************************************************************************)
C13_DefensePhaseTransient ==
    /\ [](gs.phase = "defense_phase" =>
             isProcessing /\ \E p \in Procs : procs[p].pc = "pa_defense")
    /\ [][(gs.phase = "defense_phase" /\ gs'.phase # "defense_phase") =>
             /\ \E p \in Procs : PlayerResolves(p)
             /\ gs'.phase \in {"attack_phase", "player_won", "ai_won"}]_vars
    /\ ((gs.phase = "defense_phase") ~>
            (gs.phase \in {"attack_phase", "player_won", "ai_won"}))

\* an attack went through defense_phase and was blocked: the phase is
\* attack_phase again while the invocation is still finishing
C13_Witness ==
    /\ gs.phase = "attack_phase"
    /\ gs.lastAction = [actor |-> "player", action |-> "Attack Blocked"]
    /\ \E p \in Procs : procs[p].pc = "pa_end"

(***************************************************************************)
(* C14  After a blocked attack that does not end the game the turn does    *)
(* not advance: the phase is attack_phase, currentAttacker and turnNumber  *)
(* are as before the attack, and the same attacker decides what comes      *)
(* next - the player after the AI has blocked, and the AI, whose turn      *)
(* procedure goes on, after the player has blocked.                        *)
(***************************************************************************)
C14_TurnStaysAfterBlock ==
    [][\A p \in Procs :
        /\ (/\ PlayerResolves(p) /\ Blocked(Before(p).ai, After(p).ai)
            /\ ~ Terminal(gs'.phase)) =>
               /\ gs'.phase = "attack_phase"
               /\ gs'.currentAttacker = "player"
               /\ gs'.turnNumber = procs[p].ns.turnNumber
        /\ (/\ AIResolves(p) /\ Blocked(Before(p).player, After(p).player)
            /\ ~ Terminal(gs'.phase)) =>
               /\ gs'.phase = "attack_phase"
               /\ gs'.currentAttacker = "ai"
               /\ gs'.turnNumber = procs[p].ns.turnNumber
        /\ (/\ procs[p].pc = "ai_after" /\ procs'[p].pc # "ai_after"
            /\ procs[p].ns.lastAction = [actor |-> "player", action |-> "Defended"]
            /\ procs[p].ns.phase = "attack_phase") =>
               /\ procs'[p].pc = "ai_target"
               /\ gs'.currentAttacker = "ai"
               /\ gs'.turnNumber = procs[p].ns.turnNumber
      ]_vars

(***************************************************************************)
(* C15  A valid endTurn() moves min(2, pile size) cards from the front of  *)
(* the attack draw pile, in pile order, to the end of the player's attack  *)
(* hand, sets currentAttacker to ai, adds 1 to turnNumber and clears both  *)
(* selections; each AI turn that ends in a non-terminal phase moves        *)
(* min(2, pile size) cards to the AI's attack hand in the same way, sets   *)
(* currentAttacker to player and adds 1 to turnNumber; no other step       *)
(* changes turnNumber.                                                     *)
(***************************************************************************)
C15_TurnEnd ==
    [][LET PlayerEnds == \E p \in Procs : procs[p].pc = "idle" /\ procs'[p].pc = "et_wait"
           AIEnds(p) ==
               /\ procs[p].pc \in {"cf_ai", "et_wait", "ai_target", "ai_card", "ai_after"}
               /\ procs'[p].pc = "idle"
               /\ ~ Terminal(gs'.phase)
           n == Min(2, Len(gs.taDeck))
       IN  /\ PlayerEnds =>
                 /\ heap'[gs.gen].player.taHand =
                        heap[gs.gen].player.taHand \o SubSeq(gs.taDeck, 1, n)
                 /\ gs'.taDeck = SubSeq(gs.taDeck, n + 1, Len(gs.taDeck))
                 /\ heap'[gs.gen].ai.taHand = heap[gs.gen].ai.taHand
                 /\ gs'.currentAttacker = "ai"
                 /\ gs'.turnNumber = gs.turnNumber + 1
                 /\ gs'.selectedCard = NoCard /\ gs'.selectedAsset = NoAsset
           /\ \A p \in Procs : AIEnds(p) =>
                 /\ heap'[gs.gen].ai.taHand =
                        heap[gs.gen].ai.taHand \o SubSeq(gs.taDeck, 1, n)
                 /\ gs'.taDeck = SubSeq(gs.taDeck, n + 1, Len(gs.taDeck))
                 /\ heap'[gs.gen].player.taHand = heap[gs.gen].player.taHand
                 /\ gs'.currentAttacker = "player"
                 /\ gs'.turnNumber = gs.turnNumber + 1
           /\ (~ PlayerEnds /\ ~ \E p \in Procs : AIEnds(p)) =>
                 gs'.turnNumber = gs.turnNumber
      ]_vars

\* the pile has run out at a turn end: one turn end found a single card to
\* draw, and the one after it found none
C15_Witness ==
    /\ gs.turnNumber = MaxLongTurn /\ Len(gs.taDeck) = 0
    /\ gs.phase = "attack_phase"

(***************************************************************************)
(* C16  GameState has a single writer at a time: whatever the interleaving *)
(* of the user's intents with the asynchronous steps of performCoinFlip,   *)
(* playerAttack, endTurn and executeAITurn, at most one of these           *)
(* procedures is in flight.                                                *)
(***************************************************************************)
C16_SingleWriter == Cardinality({p \in Procs : InFlight(procs, p)}) <= 1

(***************************************************************************)
(* C17  reset() replaces the game wholesale: right after reset() the state *)
(* is a freshly dealt one (phase difficulty_select, no difficulty, all six *)
(* assets facedown with damage 0, both defense counters 0, empty discards, *)
(* empty action log, turnNumber 1), and it stays so until the next         *)
(* set-difficulty: no procedure that was in flight when reset() was called *)
(* writes the old game over it.                                            *)
(***************************************************************************)
C17_ResetIsWholesale ==
    [][LET FreshSide(side) ==
               /\ Len(side.assets) = ASSETS_PER_PLAYER
               /\ \A i \in 1..Len(side.assets) :
                     side.assets[i].state = "facedown" /\ side.assets[i].damageCount = 0
               /\ side.successfulDefenses = 0
               /\ side.taDiscard = << >> /\ side.dcDiscard = << >>
           FreshlyDealt(top, objects) ==
               /\ top.phase = "difficulty_select"
               /\ top.difficulty = NoDifficulty
               /\ top.turnNumber = 1
               /\ top.actionLog = << >>
               /\ FreshSide(objects[top.gen].player)
               /\ FreshSide(objects[top.gen].ai)
       IN  /\ (\E deal \in Deals : resetGame(deal)) => FreshlyDealt(gs', heap')
           /\ (/\ FreshlyDealt(gs, heap)
               /\ ~ \E difficulty \in Difficulties : setDifficulty(difficulty))
                 => FreshlyDealt(gs', heap')
      ]_vars

(***************************************************************************)
(* C18  Every AI turn terminates, whatever the random draws: a loop        *)
(* iteration that does not end the loop takes one card out of the AI's     *)
(* attack hand and nothing in the loop puts one in, so the attacks of a    *)
(* turn are at most the cards held at its start; the procedure then        *)
(* returns with isProcessing false.                                        *)
(***************************************************************************)
C18_AITurnTerminates ==
    /\ [][\A p \in Procs :
            /\ AIResolves(p) =>
                  Len(After(p).ai.taHand) = Len(Before(p).ai.taHand) - 1
            /\ (/\ procs[p].pc \in {"ai_target", "ai_card", "ai_after"}
                /\ procs'[p].pc \in {"ai_target", "ai_card", "ai_resolve"})
                  => After(p).ai.taHand = Before(p).ai.taHand
            /\ (/\ procs[p].pc \in {"cf_ai", "et_wait", "ai_target", "ai_card", "ai_after"}
                /\ procs'[p].pc = "idle")
                  => ~ isProcessing'
         ]_vars
    /\ ((\E p \in Procs :
            procs[p].pc \in {"cf_ai", "et_wait", "ai_target", "ai_card", "ai_resolve", "ai_after"})
          ~> (Quiet /\ ~ isProcessing))

\* the AI's first turn has ended after three attacks, each continue draw
\* having said continue until the hand ran low
C18_Witness ==
    /\ Quiet /\ ~ isProcessing
    /\ gs.coinFlipResult = "ai" /\ gs.turnNumber = 2
    /\ Len(CurrentAI.taDiscard) = 3
    /\ Len(CurrentAI.taHand) = HAND_SIZE - 3 + 2

C20_AIFirstTurnUninterrupted ==
    [][\A p \in Procs :
         (procs[p].result = "ai" /\ InFlight(procs, p)) =>
             /\ playerAttack(gs, isProcessing) => UNCHANGED <<gs, heap, isProcessing, procs>>
             /\ endTurn(gs, isProcessing) => UNCHANGED <<gs, heap, isProcessing, procs>>
             /\ (~ InFlight(procs', p) /\ ~ Terminal(gs'.phase)) =>
                   gs'.currentAttacker = "player"
      ]_vars

(***************************************************************************)
(* C21  The initial deal partitions each shuffled playable pile in order:  *)
(* the player's hand is its first 5 cards, the AI's hand the next 5, the   *)
(* draw pile the rest in the same order, for the attack pile and for the   *)
(* defense pile; each side has exactly 3 assets, facedown with damage 0,   *)
(* the player's from the defense-suit asset pool and the AI's from the     *)
(* attack-suit pool; discards are empty and both successful-defense        *)
(* counters are 0.                                                         *)
(***************************************************************************)
C21_InitialDeal ==
    gs.phase = "difficulty_select" =>
        LET deck == generateFullDeck
            DealtSide(side, pool) ==
                /\ Len(side.taHand) = HAND_SIZE /\ Len(side.dcHand) = HAND_SIZE
                /\ Len(side.assets) = ASSETS_PER_PLAYER
                /\ \A i \in 1..Len(side.assets) :
                      /\ side.assets[i].state = "facedown"
                      /\ side.assets[i].damageCount = 0
                      /\ side.assets[i].instanceId \in Range(pool)
                /\ \A i, j \in 1..Len(side.assets) :
                      side.assets[i].instanceId = side.assets[j].instanceId => i = j
                /\ side.taDiscard = << >> /\ side.dcDiscard = << >>
                /\ side.successfulDefenses = 0
        IN  /\ DealtSide(CurrentPlayer, deck.dcAssets)
            /\ DealtSide(CurrentAI, deck.taAssets)
            /\ \E deal \in Deals :
                  /\ CurrentPlayer.taHand \o CurrentAI.taHand \o gs.taDeck =
                        createShuffledDeck(Append(deck.taCards, deck.jokers[1]), deal[1])
                  /\ CurrentPlayer.dcHand \o CurrentAI.dcHand \o gs.dcDeck =
                        createShuffledDeck(Append(deck.dcCards, deck.jokers[2]), deal[2])

\* a game has been dealt with the defense Joker in the player's hand and the
\* attack Joker in the AI's
C21_Witness ==
    /\ gs.phase = "difficulty_select"
    /\ RedJoker \in Range(CurrentPlayer.dcHand)
    /\ BlackJoker \in Range(CurrentAI.taHand)
    /\ Len(gs.taDeck) = 2 * NumValues + 1 - 2 * HAND_SIZE

(***************************************************************************)
(* C22  The generated deck holds 20 Threat Agent cards (each value 1..10   *)
(* once per attack suit) and 6 asset cards for the attack suits, 20        *)
(* Defense Control cards and 6 asset cards for the defense suits, and 2    *)
(* jokers, one put into the attack pile and the other into the defense     *)
(* pile; so at every reachable state the attack zones together hold        *)
(* exactly one joker and otherwise only Threat Agent cards, and the        *)
(* defense zones exactly one joker and otherwise only Defense Control      *)
(* cards.                                                                  *)
(***************************************************************************)
C22_DeckComposition ==
    LET deck == generateFullDeck
        Jokers(zones) == {i \in 1..Len(zones) : Category(zones[i]) = "joker"}
        OncePerSuit(cards, category, suits) ==
            /\ Len(cards) = 2 * NumValues
            /\ \A i \in 1..Len(cards) : Category(cards[i]) = category
            /\ \A suit \in suits : \A value \in 1..NumValues :
                  Cardinality({i \in 1..Len(cards) :
                      SuitIndex(cards[i]) = suit /\ Value(cards[i]) = value}) = 1
        Assets(cards, suits) ==
            /\ Len(cards) = 2 * NumFaces
            /\ \A i \in 1..Len(cards) :
                  Category(cards[i]) = "asset" /\ SuitIndex(cards[i]) \in suits
            /\ Cardinality(Range(cards)) = Len(cards)
    IN  /\ OncePerSuit(deck.taCards, "threat_agent", {0, 1})
        /\ OncePerSuit(deck.dcCards, "defense_control", {2, 3})
        /\ Assets(deck.taAssets, {0, 1})
        /\ Assets(deck.dcAssets, {2, 3})
        /\ Len(deck.jokers) = 2 /\ deck.jokers[1] # deck.jokers[2]
        /\ \A i \in 1..2 : Category(deck.jokers[i]) = "joker"
        /\ Cardinality(Jokers(TAZones)) = 1
        /\ \A i \in 1..Len(TAZones) : Category(TAZones[i]) \in {"threat_agent", "joker"}
        /\ Cardinality(Jokers(DCZones)) = 1
        /\ \A i \in 1..Len(DCZones) : Category(DCZones[i]) \in {"defense_control", "joker"}

(***************************************************************************)
(* C23  On brutal difficulty the AI's defense is forced: whenever the      *)
(* player attacks and the AI's defense hand holds a card that satisfies    *)
(* the match rule against the attack card, the attack is blocked whatever  *)
(* the random draw, the AI's successful-defense counter goes up by exactly *)
(* 1 and the target asset is unchanged.                                    *)
(***************************************************************************)
C23_BrutalDefenseForced ==
    [][\A p \in Procs :
         (/\ PlayerResolves(p)
          /\ procs[p].ns.difficulty = "brutal"
          /\ \E i \in 1..Len(Before(p).ai.dcHand) :
                canDefend(CardOf[procs[p].attackCard], CardOf[Before(p).ai.dcHand[i]]))
         => /\ Blocked(Before(p).ai, After(p).ai)
            /\ After(p).ai.successfulDefenses = Before(p).ai.successfulDefenses + 1
            /\ After(p).ai.assets = Before(p).ai.assets
      ]_vars

(***************************************************************************)
(* C24  Determinism: two runs started from reset with the same values of   *)
(* the random source and the same player inputs produce identical          *)
(* GameState snapshots (shuffle order, hands, piles, card and instance     *)
(* identifiers), also when the second run is a second game started by      *)
(* reset() in the same session.                                            *)
(***************************************************************************)
C24_Determinism ==
    probe.fn = "ids" =>
        \A i, j \in 1..Len(probe.games) :
            probe.games[i].random = probe.games[j].random => probe.games[i] = probe.games[j]

LogEntries == {[actor |-> "ai", action |-> "No Attack"], [actor |-> "player", action |-> "Attack"]}

InitLog ==
    /\ NoGame
    /\ probe = [fn |-> "log", appended |-> 0, entry |-> NoEntry, state |-> NoTop]

AddLog ==
    /\ probe.fn = "log"
    /\ probe.appended < LogCap + MaxLogOverflow
    /\ \E entry \in LogEntries :
         /\ (probe.appended >= MaxLogChoice /\ probe.appended < LogCap - 1)
                => entry = [actor |-> "ai", action |-> "No Attack"]
         /\ probe' = [probe EXCEPT !.appended = @ + 1, !.entry = entry,
                                    !.state = addLogToState(@, entry)]
    /\ UNCHANGED <<gs, heap, isProcessing, skipAI, procs>>

SpecLog == InitLog /\ [][AddLog]_vars

(***************************************************************************)
(* C27  The action log is bounded: at every reachable state it has at most *)
(* 200 entries; appending an entry yields the last 200 entries of (old log *)
(* followed by the new entry), so the order is kept and only the oldest    *)
(* entries are dropped; and lastAction is the last entry of the log        *)
(* whenever the log is non-empty.                                          *)
(***************************************************************************)
C27_BoundedLog ==
    /\ [](LET Bounded(top) ==
                 /\ Len(top.actionLog) <= 200
                 /\ Len(top.actionLog) > 0 =>
                        top.lastAction = top.actionLog[Len(top.actionLog)]
              Logs == {gs} \cup {procs[p].ns : p \in {q \in Procs : InFlight(procs, q)}}
                           \cup (IF probe.fn = "log" THEN {probe.state} ELSE {})
          IN  \A top \in Logs : Bounded(top))
    /\ [][AddLog =>
             LET all == Append(probe.state.actionLog, probe'.entry)
                 k == Min(Len(all), 200)
             IN  probe'.state.actionLog = [i \in 1..k |-> all[Len(all) - k + i]]
          ]_vars

\* more entries were appended than the log holds, and the newest differ
C27_Witness ==
    /\ probe.fn = "log"
    /\ probe.appended = LogCap + 2
    /\ Len(probe.state.actionLog) = LogCap
    /\ probe.state.actionLog[LogCap] # probe.state.actionLog[LogCap - 1]
    /\ probe.state.actionLog[1] = [actor |-> "ai", action |-> "No Attack"]

(***************************************************************************)
(* C28  Draw piles only shrink and discard piles only grow.                *)
(* drawToHandSize(hand, deck, target) takes k = min(max(target - |hand|,  *)
(* 0), |deck|) cards from the front of the deck, in order, appends them to *)
(* the hand and returns the rest of the deck in order; a draw from an      *)
(* empty pile changes nothing.  Over a whole game no card enters a draw    *)
(* pile and no card leaves a discard pile.                                 *)
(***************************************************************************)
C28_PilesMonotone ==
    /\ [](LET Draws(hand, deck) ==
                 \A target \in 0..(HAND_SIZE + 3) :
                    LET missing == IF target > Len(hand) THEN target - Len(hand) ELSE 0
                        k == Min(missing, Len(deck))
                        drawn == drawToHandSize(hand, deck, target)
                    IN  /\ drawn.newHand = hand \o SubSeq(deck, 1, k)
                        /\ drawn.newDeck = SubSeq(deck, k + 1, Len(deck))
              Ends(deck) == {deck, << >>, IF deck = << >> THEN deck ELSE <<deck[Len(deck)]>>}
          IN  /\ \A hand \in {CurrentPlayer.taHand, CurrentAI.taHand}, deck \in Ends(gs.taDeck) :
                     Draws(hand, deck)
              /\ \A hand \in {CurrentPlayer.dcHand, CurrentAI.dcHand}, deck \in Ends(gs.dcDeck) :
                     Draws(hand, deck))
    /\ [][LET IsPrefix(a, b) == Len(a) <= Len(b) /\ SubSeq(b, 1, Len(a)) = a
               IsSuffix(a, b) == Len(a) <= Len(b) /\ SubSeq(b, Len(b) - Len(a) + 1, Len(b)) = a
           IN  (gs'.gen = gs.gen /\ ~ \E deal \in Deals : resetGame(deal)) =>
                 /\ IsSuffix(gs'.taDeck, gs.taDeck)
                 /\ IsSuffix(gs'.dcDeck, gs.dcDeck)
                 /\ \A side \in {"player", "ai"} :
                       /\ IsPrefix(heap[gs.gen][side].taDiscard, heap'[gs.gen][side].taDiscard)
                       /\ IsPrefix(heap[gs.gen][side].dcDiscard, heap'[gs.gen][side].dcDiscard)
          ]_vars

(***************************************************************************)
(* C29  aiChooseTarget returns null iff every given asset is destroyed;    *)
(* otherwise it returns a non-destroyed asset whose lifecycle rank         *)
(* (rotated > revealed > facedown) is maximal among the non-destroyed      *)
(* assets.  So over any AI turn the AI never attacks a destroyed asset and *)
(* never attacks a less-progressed asset while a more-progressed           *)
(* non-destroyed one exists.                                               *)
(***************************************************************************)
C29_MostProgressedTarget ==
    /\ [](LET Progress(a) == CASE a.state = "rotated"  -> 3
                               [] a.state = "revealed" -> 2
                               [] a.state = "facedown" -> 1
                               [] OTHER                -> 0
              Standing(assets) == {i \in 1..Len(assets) : assets[i].state # "destroyed"}
              Chooses(assets) ==
                  LET target == aiChooseTarget(assets)
                  IN  /\ target = NoAsset <=> Standing(assets) = {}
                      /\ target # NoAsset =>
                            \E i \in Standing(assets) :
                               /\ assets[i] = target
                               /\ \A j \in Standing(assets) :
                                      Progress(assets[j]) <= Progress(target)
              Given(assets) == {assets, SelectSeq(assets, LAMBDA a : a.state = "destroyed")}
                                  \cup {SubSeq(assets, i, Len(assets)) : i \in 1..Len(assets)}
          IN  \A assets \in Given(CurrentPlayer.assets) \cup Given(CurrentAI.assets) :
                 Chooses(assets))
    /\ [][\A p \in Procs :
             AIResolves(p) =>
                LET assets == Before(p).player.assets
                    Progress(a) == CASE a.state = "rotated"  -> 3
                                     [] a.state = "revealed" -> 2
                                     [] a.state = "facedown" -> 1
                                     [] OTHER                -> 0
                    i == FindAssetIndex(assets, procs[p].target.instanceId)
                IN  /\ i # 0
                    /\ assets[i].state # "destroyed"
                    /\ \A j \in 1..Len(assets) :
                          assets[j].state # "destroyed" =>
                             Progress(assets[j]) <= Progress(assets[i])
          ]_vars

C31_AutomaticDefense ==
    /\ [](\A attackCard \in {BlackJoker} \cup Range(CurrentAI.taHand) :
             LET hand == CurrentPlayer.dcHand
                 valid == {i \in 1..Len(hand) : canDefend(CardOf[attackCard], CardOf[hand[i]])}
                 found == FindDefense(hand, attackCard)
             IN  /\ found = NoCard <=> valid = {}
                 /\ found # NoCard => \E i \in valid : hand[i] = found /\ \A j \in valid : i <= j
                 /\ (attackCard = BlackJoker /\ Len(hand) > 0) => found = hand[1])
    /\ [][\A p \in Procs :
         AIResolves(p) =>
            LET hand == Before(p).player.dcHand
                attackCard == procs[p].attackCard
                valid == {i \in 1..Len(hand) : canDefend(CardOf[attackCard], CardOf[hand[i]])}
                first == CHOOSE i \in valid : \A j \in valid : i <= j
            IN  /\ Blocked(Before(p).player, After(p).player) <=> valid # {}
                /\ valid # {} =>
                      /\ After(p).player.dcDiscard =
                             Append(Before(p).player.dcDiscard, hand[first])
                      /\ After(p).player.assets = Before(p).player.assets
                /\ valid = {} => After(p).player.dcDiscard = Before(p).player.dcDiscard
                /\ (CardOf[attackCard].category = "joker" /\ Len(hand) > 0) =>
                      Blocked(Before(p).player, After(p).player)
      ]_vars

\* the player's Joker was spent on an AI attack although a Defense Control
\* card of the attack card's value is still in the player's hand
C31_Witness ==
    \E p \in Procs :
       /\ procs[p].pc = "ai_after"
       /\ Len(CurrentPlayer.dcDiscard) > 0
       /\ Category(CurrentPlayer.dcDiscard[Len(CurrentPlayer.dcDiscard)]) = "joker"
       /\ Category(procs[p].attackCard) = "threat_agent"
       /\ \E i \in 1..Len(CurrentPlayer.dcHand) :
             /\ Category(CurrentPlayer.dcHand[i]) = "defense_control"
             /\ Value(CurrentPlayer.dcHand[i]) = Value(procs[p].attackCard)

(***************************************************************************)
(* C32  On hard and brutal, if the AI's attack hand holds a Threat Agent   *)
(* card that no card of the player's defense hand can defend (no           *)
(* equal-value Defense Control and no Joker), aiChooseAttackCard returns   *)
(* such a card with the highest value among them, and the resulting attack *)
(* is never blocked; if every card is defendable but some Threat Agent     *)
(* value matches no Defense Control value in the player's hand, it returns *)
(* the highest such value; otherwise the highest-value card of the hand.   *)
(***************************************************************************)
C32_InformedAttack ==
    /\ [](\A taHand \in {CurrentAI.taHand}, dcHand \in {CurrentPlayer.dcHand, CurrentAI.dcHand},
             difficulty \in {"hard", "brutal"}, random \in {50} :
             LET Worth(c) == IF CardOf[c].category = "threat_agent" THEN CardOf[c].value ELSE 0
                 agents == {i \in 1..Len(taHand) : CardOf[taHand[i]].category = "threat_agent"}
                 open == {i \in agents : \A j \in 1..Len(dcHand) :
                             ~ canDefend(CardOf[taHand[i]], CardOf[dcHand[j]])}
                 unmatched == {i \in agents : \A j \in 1..Len(dcHand) :
                                  CardOf[dcHand[j]].category = "defense_control" =>
                                     CardOf[dcHand[j]].value # CardOf[taHand[i]].value}
                 card == aiChooseAttackCard(taHand, dcHand, difficulty, random)
                 HighestOf(set) == \E i \in set : /\ taHand[i] = card
                                                   /\ \A j \in set : Worth(taHand[j]) <= Worth(card)
             IN  /\ open # {} => HighestOf(open)
                 /\ (open = {} /\ unmatched # {}) => HighestOf(unmatched)
                 /\ (open = {} /\ unmatched = {} /\ Len(taHand) > 0) =>
                        HighestOf(1..Len(taHand)))
    /\ [][\A p \in Procs :
             LET card == IF procs[p].pc = "ai_card" THEN procs'[p].attackCard
                         ELSE procs[p].attackCard
                 Open(hand) == \A j \in 1..Len(hand) : ~ canDefend(CardOf[card], CardOf[hand[j]])
                 informed == DifficultyOr(procs[p].difficulty) \in {"hard", "brutal"}
             IN  \* the card is chosen among the open ones, if there are any
                 /\ (/\ procs[p].pc = "ai_card" /\ procs'[p].pc = "ai_resolve" /\ informed
                     /\ \E i \in 1..Len(Before(p).ai.taHand) :
                           /\ Category(Before(p).ai.taHand[i]) = "threat_agent"
                           /\ \A j \in 1..Len(Before(p).player.dcHand) :
                                 ~ canDefend(CardOf[Before(p).ai.taHand[i]],
                                             CardOf[Before(p).player.dcHand[j]]))
                       => Open(After(p).player.dcHand)
                 \* it stays open while the attack waits to be resolved
                 /\ (/\ procs[p].pc = "ai_resolve" /\ procs'[p].pc = "ai_resolve" /\ informed
                     /\ Open(Before(p).player.dcHand))
                       => Open(After(p).player.dcHand)
                 \* and an open card is not blocked
                 /\ (AIResolves(p) /\ informed /\ Open(Before(p).player.dcHand))
                       => ~ Blocked(Before(p).player, After(p).player)
          ]_vars

(***************************************************************************)
(* C33  For every difficulty, aiChooseAttackCard returns no card iff the   *)
(* AI's attack hand is empty; otherwise the returned card is a member of   *)
(* that hand, and it is a Joker only if the hand holds no Threat Agent     *)
(* card.                                                                   *)
(***************************************************************************)
C33_AttackCardFromHand ==
    \A difficulty \in Difficulties, random \in {0, 50, 99},
       dcHand \in {CurrentPlayer.dcHand, CurrentAI.dcHand},
       taHand \in {CurrentAI.taHand, CurrentPlayer.taHand, << >>,
                   SelectSeq(CurrentAI.taHand, LAMBDA c : CardOf[c].category = "joker")} :
        LET card == aiChooseAttackCard(taHand, dcHand, difficulty, random)
        IN  /\ card = NoCard <=> Len(taHand) = 0
            /\ card # NoCard =>
                  /\ \E i \in 1..Len(taHand) : taHand[i] = card
                  /\ CardOf[card].category = "joker" =>
                        \A i \in 1..Len(taHand) : CardOf[taHand[i]].category # "threat_agent"

\* the AI has attacked with a Threat Agent card while holding a Joker
C33_Witness ==
    \E p \in Procs :
       /\ procs[p].pc = "ai_after"
       /\ Category(procs[p].attackCard) = "threat_agent"
       /\ \E i \in 1..Len(CurrentAI.taHand) : Category(CurrentAI.taHand[i]) = "joker"
       /\ Len(CurrentAI.taDiscard) > 0

(***************************************************************************)
(* C34  After each unblocked AI hit that does not end the game: if the AI  *)
(* still holds at least one attack card and some player asset is rotated,  *)
(* the AI attacks again in the same turn whatever the random draw;         *)
(* otherwise, if it holds fewer than 3 attack cards, it ends its turn      *)
(* whatever the draw; otherwise it continues iff the draw is below 0.3     *)
(* (easy), 0.7 (hard) or 0.95 (brutal).  With no attack card or no         *)
(* non-destroyed target it always ends the turn.  Draws in hundredths.     *)
(***************************************************************************)
C34_ContinueOrEnd ==
    /\ [](\A assets \in {CurrentPlayer.assets},
             taHand \in {SubSeq(CurrentAI.taHand, i, Len(CurrentAI.taHand)) :
                            i \in 1..(Len(CurrentAI.taHand) + 1)},
             difficulty \in Difficulties, random \in {0, 29, 30, 69, 70, 94, 95, 99} :
             LET standing == {i \in 1..Len(assets) : assets[i].state # "destroyed"}
                 rotated == {i \in standing : assets[i].state = "rotated"}
                 threshold == CASE difficulty = "easy" -> 30
                                [] difficulty = "hard" -> 70
                                [] difficulty = "brutal" -> 95
                 again == aiDecideContinueOrEnd(taHand, assets, difficulty, random) = "attack"
             IN  /\ (Len(taHand) = 0 \/ standing = {}) => ~ again
                 /\ (Len(taHand) > 0 /\ rotated # {}) => again
                 /\ (Len(taHand) > 0 /\ standing # {} /\ rotated = {}) =>
                        (again <=> (Len(taHand) >= 3 /\ random < threshold)))
    /\ [][\A p \in Procs :
             /\ (/\ AIResolves(p)
                 /\ ~ Blocked(Before(p).player, After(p).player)
                 /\ procs'[p].ns.phase = "attack_phase")
                   => LET taHand == After(p).ai.taHand
                          assets == After(p).player.assets
                          rotated == \E i \in 1..Len(assets) : assets[i].state = "rotated"
                      IN  /\ (Len(taHand) > 0 /\ rotated) => procs'[p].continueAttacking
                          /\ (Len(taHand) = 0 \/ (~ rotated /\ Len(taHand) < 3))
                                => ~ procs'[p].continueAttacking
             /\ (procs[p].pc = "ai_after" /\ procs[p].ns.phase = "attack_phase"
                    /\ procs'[p] # procs[p])
                   => (procs'[p].pc = "ai_target" <=> procs[p].continueAttacking)
          ]_vars

\* the AI goes on after a hit with fewer than 3 cards left, because an asset
\* of the player is rotated
C34_Witness ==
    \E p \in Procs :
       /\ procs[p].pc = "ai_after" /\ procs[p].continueAttacking
       /\ gs.lastAction = [actor |-> "ai", action |-> "Attack Hit"]
       /\ Len(CurrentAI.taHand) < 3
       /\ \E i \in 1..Len(CurrentPlayer.assets) : CurrentPlayer.assets[i].state = "rotated"

(***************************************************************************)
(* C35  The attack context counts attacks per turn: whenever attackState   *)
(* is set, its attacksThisRound is the number of attacks the current       *)
(* attacker has made so far in the current turn (1 for the first attack of *)
(* a turn), in the player's turns and in the AI's; and whenever no         *)
(* procedure is in flight attackState is null, also after an AI turn has   *)
(* completed.  The count is stated for the first turn of each side, where  *)
(* the attacks of the turn are the attacker's discards and the attack in   *)
(* progress.                                                               *)
(***************************************************************************)
C35_AttackContext ==
    /\ Quiet => gs.attackState = NoAttackState
    /\ \A p \in Procs :
          (/\ procs[p].pc \in {"pa_defense", "ai_resolve"}
           /\ gs = procs[p].ns
           /\ gs.turnNumber <= 2)
          => LET attacker == IF procs[p].pc = "pa_defense" THEN CurrentPlayer ELSE CurrentAI
             IN  /\ gs.attackState # NoAttackState
                 /\ gs.attackState.attacksThisRound = Len(attacker.taDiscard) + 1

(***************************************************************************)
(* C36  Each side's successful-defense counter never decreases, increases  *)
(* by exactly 1 exactly when an attack against that side is blocked, and   *)
(* never exceeds 6 in any reachable state; it is at most 5 in every        *)
(* non-terminal state.                                                     *)
(***************************************************************************)
C36_DefenseCounter ==
    /\ [](\A side \in {"player", "ai"} :
             /\ heap[gs.gen][side].successfulDefenses <= 6
             /\ ~ Terminal(gs.phase) => heap[gs.gen][side].successfulDefenses <= 5)
    /\ [][(gs'.gen = gs.gen /\ ~ \E deal \in Deals : resetGame(deal)) =>
             LET old(side) == heap[gs.gen][side].successfulDefenses
                 new(side) == heap'[gs.gen][side].successfulDefenses
                 blockedPlayer == \E p \in Procs : /\ AIResolves(p) /\ procs[p].ns.gen = gs.gen
                                                    /\ Blocked(Before(p).player, After(p).player)
                 blockedAI == \E p \in Procs : /\ PlayerResolves(p) /\ procs[p].ns.gen = gs.gen
                                                /\ Blocked(Before(p).ai, After(p).ai)
             IN  /\ new("player") = old("player") + (IF blockedPlayer THEN 1 ELSE 0)
                 /\ new("ai") = old("ai") + (IF blockedAI THEN 1 ELSE 0)
          ]_vars

\* C37: each side has at most 2 destroyed assets in every state and at most 1
\* while the phase is not a win phase; so whenever the AI turn is about to
\* choose its target the player has at least two standing assets and
\* aiChooseTarget returns an asset, never null (the 'No valid target' branch
\* of lines 508-513 is not taken)
C37_TargetAlwaysExists ==
    /\ \A side \in {"player", "ai"} :
           /\ DestroyedCount(heap[gs.gen][side].assets) <= 2
           /\ ~ Terminal(gs.phase) => DestroyedCount(heap[gs.gen][side].assets) <= 1
    /\ \A p \in Procs :
           procs[p].pc = "ai_target" =>
               LET assets == World(procs[p].ns).player.assets
               IN  /\ Len(assets) - DestroyedCount(assets) >= 2
                   /\ aiChooseTarget(assets) # NoAsset

\* C38: whenever no procedure is in flight, the lock is free and the phase is
\* attack_phase, the current attacker is the player: the AI is never left as
\* the attacker waiting for an input
C38_TurnHandedBack ==
    (Quiet /\ ~ isProcessing /\ gs.phase = "attack_phase") => gs.currentAttacker = "player"

\* the state after an AI turn has handed the turn back
C38_Witness ==
    /\ Quiet /\ ~ isProcessing
    /\ gs.phase = "attack_phase" /\ gs.currentAttacker = "player"
    /\ gs.turnNumber >= 2
    /\ gs.actionLog # << >> /\ gs.actionLog[Len(gs.actionLog)].actor = "ai"

\* C39: the game cannot get stuck without a winner: in no reachable state
\* whose phase is not a win phase are the attack draw pile and both attack
\* hands all empty
C39_NeverOutOfAttackCards ==
    ~ Terminal(gs.phase) =>
        ~ (/\ gs.taDeck = << >>
           /\ heap[gs.gen].player.taHand = << >>
           /\ heap[gs.gen].ai.taHand = << >>
           /\ gs.phase = "attack_phase")

====
